---- MODULE Spec2Model ----
(***************************************************************************)
(* Model of the Go lexer of package lexer (lexer.go, state.go) and of the  *)
(* token vocabulary it emits.  The lexer is a state machine: lex runs the  *)
(* active state function until it returns the nil state.  Every state      *)
(* function is one action below; the lexer struct is the state.            *)
(*                                                                         *)
(* The input is a sequence of bytes.  An ASCII byte is written as the      *)
(* one-character string of its character; the bytes of the multi-byte      *)
(* runes of the model are "xC3" "xA9" (U+00E9, a letter), "xEF" "xBB"      *)
(* "xBF" (U+FEFF, the byte order mark) and "x80" (a stray continuation     *)
(* byte); the byte 0x60 of the back quote is written "x60".  Offsets       *)
(* (start, pos, line) are 0-based as in the source.                        *)
(***************************************************************************)
EXTENDS Integers, Sequences, FiniteSets, TLC

VARIABLES input, start, pos, width, tokens, line, state, theKind, class, second

vars == <<input, start, pos, width, tokens, line, state, theKind, class, second>>

(* ------------------------------ bounds --------------------------------- *)

\* Largest number of fragments of CoreFrags that make up an input.
MaxFrags == 4

\* Largest number of fragments of TailFrags that follow a fragment of
\* WideFrags in an input.
MaxTail == 1

(* ------------------------------ runes ---------------------------------- *)

eof == "eof"

RuneError == "U+FFFD"

BOM == "U+FEFF"

EAcute == "U+00E9"

\* The back quote character.
backquote == "x60"

NonASCII == {"xC3", "xA9", "xEF", "xBB", "xBF", "xBD", "x80"}

\* utf8.DecodeRuneInString(s[p:]) for p < len(s): the rune and its width.
DecodeRuneInString(s, p) ==
  LET b == s[p + 1]
      has(k, c) == p + k + 1 <= Len(s) /\ s[p + k + 1] = c
  IN  IF b \notin NonASCII THEN [r |-> b, w |-> 1]
      ELSE IF b = "xC3" /\ has(1, "xA9") THEN [r |-> EAcute, w |-> 2]
      ELSE IF b = "xEF" /\ has(1, "xBB") /\ has(2, "xBF") THEN [r |-> BOM, w |-> 3]
      ELSE IF b = "xEF" /\ has(1, "xBF") /\ has(2, "xBD") THEN [r |-> RuneError, w |-> 3]
      ELSE [r |-> RuneError, w |-> 1]

whitespace == {" ", "\t", "\r"}

decimal == {"0", "1", "2", "3", "4", "5", "6", "7", "8", "9"}

octal == {"0", "1", "2", "3", "4", "5", "6", "7"}

hex == decimal \cup {"A", "B", "C", "D", "E", "F", "a", "b", "c", "d", "e", "f"}

\* unicode.IsLetter on the runes of the model.
IsLetter(r) ==
  r \in {"a", "b", "c", "d", "e", "f", "g", "h", "i", "j", "k", "l", "m",
         "n", "o", "p", "q", "r", "s", "t", "u", "v", "w", "x", "y", "z",
         "A", "B", "C", "D", "E", "F", "G", "H", "I", "J", "K", "L", "M",
         "N", "O", "P", "Q", "R", "S", "T", "U", "V", "W", "X", "Y", "Z",
         EAcute}

\* unicode.IsDigit on the runes of the model.
IsDigit(r) == r \in decimal

isLetter(r) == IsLetter(r) \/ r = "_"

\* s[a:b] of the source.
Slice(s, a, b) == SubSeq(s, a + 1, b)

HasSuffix(s, suffix) ==
  Len(s) >= Len(suffix) /\ SubSeq(s, Len(s) - Len(suffix) + 1, Len(s)) = suffix

HasPrefix(s, prefix) ==
  Len(s) >= Len(prefix) /\ SubSeq(s, 1, Len(prefix)) = prefix

(* ------------------------------ lexer ---------------------------------- *)

\* A local variable: F applied to the value that is assigned to it.
With(v, F(_)) == F(v)

\* The lexer struct, with the state function that lex runs next.
Cur ==
  [input |-> input, start |-> start, pos |-> pos, width |-> width,
   tokens |-> tokens, line |-> line, state |-> state]

\* The lexer that Parse constructs for an input.
NewLexer(in) ==
  [input |-> in, start |-> 0, pos |-> 0, width |-> 0,
   tokens |-> <<>>, line |-> 0, state |-> "lexToken"]

\* log.Fatal ends the program: nothing after it runs.
Fatal(l) == [l EXCEPT !.state = "fatal"]

\* return of the next state function.
Return(l, s) == IF l.state = "fatal" THEN l ELSE [l EXCEPT !.state = s]

errorf(l, msg) ==
  IF l.state = "fatal" THEN l
  ELSE [l EXCEPT !.tokens = Append(@, [Kind |-> "Error", Val |-> msg]),
                 !.state = "nil"]

\* emit that leaves l.start where it is.
emitKeepStart(l, kind) ==
  IF l.state = "fatal" THEN l
  ELSE IF kind = "EOF" /\ l.pos < Len(l.input) THEN Fatal(l)
  ELSE IF kind = "EOF" /\ l.start # l.pos THEN Fatal(l)
  ELSE [l EXCEPT !.tokens = Append(@, [Kind |-> kind,
                                       Val |-> Slice(l.input, l.start, l.pos)])]

emit(l, kind) ==
  IF l.state = "fatal" THEN l
  ELSE IF kind = "EOF" /\ l.pos < Len(l.input) THEN Fatal(l)
  ELSE IF kind = "EOF" /\ l.start # l.pos THEN Fatal(l)
  ELSE [l EXCEPT !.tokens = Append(@, [Kind |-> kind,
                                       Val |-> Slice(l.input, l.start, l.pos)]),
                 !.start = l.pos]

next(l) ==
  IF l.pos >= Len(l.input)
  THEN [l |-> [l EXCEPT !.width = 0], r |-> eof]
  ELSE With(DecodeRuneInString(l.input, l.pos), LAMBDA d :
         [l |-> [l EXCEPT !.width = d.w, !.pos = @ + d.w], r |-> d.r])

backup(l) ==
  IF l.state = "fatal" THEN l
  ELSE IF l.width = 0 THEN Fatal(l)
  ELSE [l EXCEPT !.pos = @ - l.width, !.width = 0]

accept(l, valid) ==
  With(next(l), LAMBDA n :
      IF n.r = eof THEN [l |-> n.l, ok |-> FALSE]
      ELSE IF n.r \notin valid THEN [l |-> backup(n.l), ok |-> FALSE]
      ELSE [l |-> n.l, ok |-> TRUE])

RECURSIVE acceptLoop(_, _, _)
acceptLoop(l, valid, consumed) ==
  With(accept(l, valid), LAMBDA a :
      IF a.ok THEN acceptLoop(a.l, valid, TRUE)
      ELSE [l |-> a.l, ok |-> consumed])

\* acceptRun with an if in place of the for: at most one rune is consumed.
acceptRunOnce(l, valid) == accept(l, valid)

acceptRun(l, valid) == acceptLoop(l, valid, FALSE)

ignore(l) == [l EXCEPT !.start = l.pos]

ignoreRun(l, valid) ==
  With(acceptRun(l, valid), LAMBDA a : IF a.ok THEN ignore(a.l) ELSE a.l)

(* ------------------------- semicolon insertion ------------------------- *)

\* TriggerKinds without the closing brace.
TriggerKindsNoRbrace ==
  {"Ident", "Int", "Float", "Imag", "Rune", "String",
   "Break", "Continue", "Fallthrough", "Return",
   "Inc", "Dec", "Rparen", "Rbrack"}

TriggerKinds ==
  {"Ident", "Int", "Float", "Imag", "Rune", "String",
   "Break", "Continue", "Fallthrough", "Return",
   "Inc", "Dec", "Rparen", "Rbrack", "Rbrace"}

\* semicolonTok without the Val field set.
semicolonTokNoVal == [Kind |-> "Semicolon", Val |-> <<>>]

semicolonTok == [Kind |-> "Semicolon", Val |-> <<";">>]

\* lastOfLine with insert initialised to true.
RECURSIVE lastOfLineInsertSet(_, _, _, _)
lastOfLineInsertSet(toks, p, lineIdx, trailingComments) ==
  IF p < lineIdx
  THEN [pos |-> p, insert |-> TRUE, trailingComments |-> trailingComments]
  ELSE IF toks[p + 1].Kind = "Comment"
  THEN lastOfLineInsertSet(toks, p - 1, lineIdx, TRUE)
  ELSE [pos |-> p, insert |-> toks[p + 1].Kind \in TriggerKinds,
        trailingComments |-> trailingComments]

\* The loop of insertSemicolon: walks back from the newest token to l.line.
RECURSIVE lastOfLine(_, _, _, _)
lastOfLine(toks, p, lineIdx, trailingComments) ==
  IF p < lineIdx
  THEN [pos |-> p, insert |-> FALSE, trailingComments |-> trailingComments]
  ELSE IF toks[p + 1].Kind = "Comment"
  THEN lastOfLine(toks, p - 1, lineIdx, TRUE)
  ELSE [pos |-> p, insert |-> toks[p + 1].Kind \in TriggerKinds,
        trailingComments |-> trailingComments]

\* copy as a forward element-by-element loop, which reads what it has
\* already overwritten when the ranges overlap.
copyForward(s, d, f) ==
  LET n == IF Len(s) - d < Len(s) - f THEN Len(s) - d ELSE Len(s) - f
  IN  [i \in 1..Len(s) |->
         IF i - 1 >= d /\ i - 1 < d + n
         THEN (IF d > f THEN s[f + ((i - 1 - d) % (d - f)) + 1] ELSE s[f + (i - 1 - d) + 1])
         ELSE s[i]]

\* copy(s[d:], s[f:]) of Go: min(len(s)-d, len(s)-f) elements are moved as
\* if through a temporary (memmove).
copy(s, d, f) ==
  LET n == IF Len(s) - d < Len(s) - f THEN Len(s) - d ELSE Len(s) - f
  IN  [i \in 1..Len(s) |->
         IF i - 1 >= d /\ i - 1 < d + n THEN s[f + (i - 1 - d) + 1] ELSE s[i]]

\* insertSemicolon that moves the tokens from pos on and writes the
\* semicolon at pos instead of pos+1.
insertSemicolonAtPos(l) ==
  With(lastOfLine(l.tokens, Len(l.tokens) - 1, l.line, FALSE), LAMBDA w :
      IF l.state = "fatal" \/ ~w.insert THEN l
      ELSE IF w.trailingComments
      THEN [l EXCEPT !.tokens =
              [copy(Append(l.tokens, semicolonTok), w.pos + 1, w.pos)
                 EXCEPT ![w.pos + 1] = semicolonTok]]
      ELSE [l EXCEPT !.tokens = Append(l.tokens, semicolonTok)])

insertSemicolon(l) ==
  With(lastOfLine(l.tokens, Len(l.tokens) - 1, l.line, FALSE), LAMBDA w :
      IF l.state = "fatal" \/ ~w.insert THEN l
      ELSE IF w.trailingComments
      THEN [l EXCEPT !.tokens =
              [copy(Append(l.tokens, semicolonTok), w.pos + 2, w.pos + 1)
                 EXCEPT ![w.pos + 2] = semicolonTok]]
      ELSE [l EXCEPT !.tokens = Append(l.tokens, semicolonTok)])

(* --------------------------- state functions --------------------------- *)

lexToken(l) ==
  With(next(ignoreRun(l, whitespace)), LAMBDA n :
      CASE n.r = eof -> Return(emit(insertSemicolon(n.l), "EOF"), "nil")
        [] n.r = "\n" ->
             With(insertSemicolon(ignore(n.l)), LAMBDA s :
               Return([s EXCEPT !.line = Len(s.tokens)], "lexToken"))
        [] n.r = "/" -> Return(n.l, "lexDivOrComment")
        [] n.r = "!" -> Return(n.l, "lexNot")
        [] n.r = "<" -> Return(n.l, "lexLessArrowOrShl")
        [] n.r = ">" -> Return(n.l, "lexGreaterOrShr")
        [] n.r = "&" -> Return(n.l, "lexAndOrClear")
        [] n.r = "|" -> Return(n.l, "lexOr")
        [] n.r = "=" -> Return(n.l, "lexEqOrAssign")
        [] n.r = ":" -> Return(n.l, "lexColonOrDeclAssign")
        [] n.r = "*" -> Return(n.l, "lexMul")
        [] n.r = "%" -> Return(n.l, "lexMod")
        [] n.r = "^" -> Return(n.l, "lexXor")
        [] n.r = "+" -> Return(n.l, "lexAddOrInc")
        [] n.r = "-" -> Return(n.l, "lexSubOrDec")
        [] n.r = "(" -> Return(emit(n.l, "Lparen"), "lexToken")
        [] n.r = "[" -> Return(emit(n.l, "Lbrack"), "lexToken")
        [] n.r = "{" -> Return(emit(n.l, "Lbrace"), "lexToken")
        [] n.r = ")" -> Return(emit(n.l, "Rparen"), "lexToken")
        [] n.r = "]" -> Return(emit(n.l, "Rbrack"), "lexToken")
        [] n.r = "}" -> Return(emit(n.l, "Rbrace"), "lexToken")
        [] n.r = "," -> Return(emit(n.l, "Comma"), "lexToken")
        [] n.r = ";" -> Return(emit(n.l, "Semicolon"), "lexToken")
        [] n.r \in {"."} \cup decimal -> Return(backup(n.l), "lexDotOrNumber")
        [] n.r = "'" -> Return(n.l, "lexRune")
        [] n.r = "\"" -> Return(n.l, "lexString")
        [] n.r = backquote -> Return(n.l, "lexRawString")
        [] OTHER -> IF isLetter(n.r) THEN Return(n.l, "lexKeywordOrIdent")
                    ELSE errorf(n.l, <<"syntax error; unexpected ", n.r>>))

lexDivOrComment(l) ==
  With(next(l), LAMBDA n :
      CASE n.r = "=" -> Return(emit(n.l, "DivAssign"), "lexToken")
        [] n.r = "/" -> Return(n.l, "lexLineComment")
        [] n.r = "*" -> Return(n.l, "lexGeneralComment")
        [] OTHER -> Return(emit(backup(n.l), "Div"), "lexToken"))

\* lineCommentLoop that sets l.line one past the number of tokens.
RECURSIVE lineCommentLoopLinePastEnd(_)
lineCommentLoopLinePastEnd(l) ==
  With(next(l), LAMBDA n :
      CASE n.r = eof -> Return(emit(emit(n.l, "Comment"), "EOF"), "nil")
        [] n.r = "\n" ->
             With(emit(n.l, "Comment"), LAMBDA e :
               Return([e EXCEPT !.line = Len(e.tokens) + 1], "lexToken"))
        [] OTHER -> lineCommentLoopLinePastEnd(n.l))

RECURSIVE lineCommentLoop(_)
lineCommentLoop(l) ==
  With(next(l), LAMBDA n :
      CASE n.r = eof -> Return(emit(emit(n.l, "Comment"), "EOF"), "nil")
        [] n.r = "\n" ->
             With(emit(n.l, "Comment"), LAMBDA e :
               Return([e EXCEPT !.line = Len(e.tokens)], "lexToken"))
        [] OTHER -> lineCommentLoop(n.l))

lexLineComment(l) == lineCommentLoop(insertSemicolon(l))

\* generalCommentLoop that does not record the newlines it reads.
RECURSIVE generalCommentLoopNoFlag(_, _)
generalCommentLoopNoFlag(l, hasNewline) ==
  IF HasSuffix(Slice(l.input, l.start, l.pos), <<"*", "/">>)
  THEN IF hasNewline
       THEN With(insertSemicolon(l), LAMBDA s :
              Return(emit([s EXCEPT !.line = Len(s.tokens)], "Comment"), "lexToken"))
       ELSE Return(emit(l, "Comment"), "lexToken")
  ELSE With(next(l), LAMBDA n :
           CASE n.r = eof -> errorf(n.l, <<"unexpected eof in general comment">>)
             [] OTHER -> generalCommentLoopNoFlag(n.l, hasNewline))

RECURSIVE generalCommentLoop(_, _)
generalCommentLoop(l, hasNewline) ==
  IF HasSuffix(Slice(l.input, l.start, l.pos), <<"*", "/">>)
  THEN IF hasNewline
       THEN With(insertSemicolon(l), LAMBDA s :
              Return(emit([s EXCEPT !.line = Len(s.tokens)], "Comment"), "lexToken"))
       ELSE Return(emit(l, "Comment"), "lexToken")
  ELSE With(next(l), LAMBDA n :
           CASE n.r = eof -> errorf(n.l, <<"unexpected eof in general comment">>)
             [] n.r = "\n" -> generalCommentLoop(n.l, TRUE)
             [] OTHER -> generalCommentLoop(n.l, hasNewline))

lexGeneralComment(l) == generalCommentLoop(l, FALSE)

lexNot(l) ==
  With(next(l), LAMBDA n :
      CASE n.r = "=" -> Return(emit(n.l, "Neq"), "lexToken")
        [] OTHER -> Return(emit(backup(n.l), "Not"), "lexToken"))

lexLessArrowOrShl(l) ==
  With(next(l), LAMBDA n :
      CASE n.r = "-" -> Return(emit(n.l, "Arrow"), "lexToken")
        [] n.r = "<" ->
             With(accept(n.l, {"="}), LAMBDA a :
               IF a.ok THEN Return(emit(a.l, "ShlAssign"), "lexToken")
               ELSE Return(emit(a.l, "Shl"), "lexToken"))
        [] n.r = "=" -> Return(emit(n.l, "Lte"), "lexToken")
        [] OTHER -> Return(emit(backup(n.l), "Lt"), "lexToken"))

lexGreaterOrShr(l) ==
  With(next(l), LAMBDA n :
      CASE n.r = ">" ->
             With(accept(n.l, {"="}), LAMBDA a :
               IF a.ok THEN Return(emit(a.l, "ShrAssign"), "lexToken")
               ELSE Return(emit(a.l, "Shr"), "lexToken"))
        [] n.r = "=" -> Return(emit(n.l, "Gte"), "lexToken")
        [] OTHER -> Return(emit(backup(n.l), "Gt"), "lexToken"))

lexAndOrClear(l) ==
  With(next(l), LAMBDA n :
      CASE n.r = "^" ->
             With(accept(n.l, {"="}), LAMBDA a :
               IF a.ok THEN Return(emit(a.l, "ClearAssign"), "lexToken")
               ELSE Return(emit(a.l, "Clear"), "lexToken"))
        [] n.r = "&" -> Return(emit(n.l, "Land"), "lexToken")
        [] n.r = "=" -> Return(emit(n.l, "AndAssign"), "lexToken")
        [] OTHER -> Return(emit(backup(n.l), "And"), "lexToken"))

lexOr(l) ==
  With(next(l), LAMBDA n :
      CASE n.r = "|" -> Return(emit(n.l, "Lor"), "lexToken")
        [] n.r = "=" -> Return(emit(n.l, "OrAssign"), "lexToken")
        [] OTHER -> Return(emit(backup(n.l), "Or"), "lexToken"))

lexEqOrAssign(l) ==
  With(next(l), LAMBDA n :
      CASE n.r = "=" -> Return(emit(n.l, "Eq"), "lexToken")
        [] OTHER -> Return(emit(backup(n.l), "Assign"), "lexToken"))

lexColonOrDeclAssign(l) ==
  With(next(l), LAMBDA n :
      CASE n.r = "=" -> Return(emit(n.l, "DeclAssign"), "lexToken")
        [] OTHER -> Return(emit(backup(n.l), "Colon"), "lexToken"))

lexMul(l) ==
  With(next(l), LAMBDA n :
      CASE n.r = "=" -> Return(emit(n.l, "MulAssign"), "lexToken")
        [] OTHER -> Return(emit(backup(n.l), "Mul"), "lexToken"))

lexMod(l) ==
  With(next(l), LAMBDA n :
      CASE n.r = "=" -> Return(emit(n.l, "ModAssign"), "lexToken")
        [] OTHER -> Return(emit(backup(n.l), "Mod"), "lexToken"))

lexXor(l) ==
  With(next(l), LAMBDA n :
      CASE n.r = "=" -> Return(emit(n.l, "XorAssign"), "lexToken")
        [] OTHER -> Return(emit(backup(n.l), "Xor"), "lexToken"))

lexAddOrInc(l) ==
  With(next(l), LAMBDA n :
      CASE n.r = "=" -> Return(emit(n.l, "AddAssign"), "lexToken")
        [] n.r = "+" -> Return(emit(n.l, "Inc"), "lexToken")
        [] OTHER -> Return(emit(backup(n.l), "Add"), "lexToken"))

lexSubOrDec(l) ==
  With(next(l), LAMBDA n :
      CASE n.r = "=" -> Return(emit(n.l, "SubAssign"), "lexToken")
        [] n.r = "-" -> Return(emit(n.l, "Dec"), "lexToken")
        [] OTHER -> Return(emit(backup(n.l), "Sub"), "lexToken"))

\* lexDotOrNumber that takes one more dot, not two, for an ellipsis.
lexDotOrNumberTwoDots(l) ==
  \* Integer part.
  With(accept(l, {"0"}), LAMBDA zero :
  With(IF zero.ok THEN accept(zero.l, {"x", "X"}) ELSE zero, LAMBDA hx :
    IF zero.ok /\ hx.ok
    THEN With(acceptRun(hx.l, hex), LAMBDA hexRun :
           IF ~hexRun.ok
           THEN errorf(hexRun.l, <<"malformed hexadecimal constant">>)
           ELSE Return(emit(hexRun.l, "Int"), "lexToken"))
    ELSE
  With(acceptRun(hx.l, decimal), LAMBDA int :
  \* Decimal point.
  With(accept(int.l, {"."}), LAMBDA dot :
  \* Fraction part.
  With(acceptRun(dot.l, decimal), LAMBDA frac :
  With(IF frac.ok THEN "Float"
       ELSE IF dot.ok THEN (IF zero.ok \/ int.ok THEN "Float" ELSE "Dot")
       ELSE IF zero.ok \/ int.ok THEN "Int"
       ELSE "None", LAMBDA kind :
    IF kind = "Dot"
    THEN IF HasPrefix(Slice(frac.l.input, frac.l.pos, Len(frac.l.input)), <<".">>)
         THEN Return(emit([frac.l EXCEPT !.pos = @ + 1, !.width = 0], "Ellipsis"),
                     "lexToken")
         ELSE Return(emit(frac.l, "Dot"), "lexToken")
    ELSE
  \* Exponent part.
  With(accept(frac.l, {"e", "E"}), LAMBDA exp :
  With(IF exp.ok THEN acceptRun(accept(exp.l, {"+", "-"}).l, decimal) ELSE exp,
       LAMBDA expRun :
    IF exp.ok /\ ~expRun.ok
    THEN errorf(expRun.l, <<"malformed exponent of floating-point constant">>)
    ELSE
  \* Imaginary.
  With(accept(expRun.l, {"i"}), LAMBDA imag :
    Return(emit(imag.l, IF imag.ok THEN "Imag" ELSE IF exp.ok THEN "Float" ELSE kind),
           "lexToken"))))))))))

lexDotOrNumber(l) ==
  \* Integer part.
  With(accept(l, {"0"}), LAMBDA zero :
  With(IF zero.ok THEN accept(zero.l, {"x", "X"}) ELSE zero, LAMBDA hx :
    IF zero.ok /\ hx.ok
    THEN With(acceptRun(hx.l, hex), LAMBDA hexRun :
           IF ~hexRun.ok
           THEN errorf(hexRun.l, <<"malformed hexadecimal constant">>)
           ELSE Return(emit(hexRun.l, "Int"), "lexToken"))
    ELSE
  With(acceptRun(hx.l, decimal), LAMBDA int :
  \* Decimal point.
  With(accept(int.l, {"."}), LAMBDA dot :
  \* Fraction part.
  With(acceptRun(dot.l, decimal), LAMBDA frac :
  With(IF frac.ok THEN "Float"
       ELSE IF dot.ok THEN (IF zero.ok \/ int.ok THEN "Float" ELSE "Dot")
       ELSE IF zero.ok \/ int.ok THEN "Int"
       ELSE "None", LAMBDA kind :
    IF kind = "Dot"
    THEN IF HasPrefix(Slice(frac.l.input, frac.l.pos, Len(frac.l.input)), <<".", ".">>)
         THEN Return(emit([frac.l EXCEPT !.pos = @ + 2, !.width = 0], "Ellipsis"),
                     "lexToken")
         ELSE Return(emit(frac.l, "Dot"), "lexToken")
    ELSE
  \* Exponent part.
  With(accept(frac.l, {"e", "E"}), LAMBDA exp :
  With(IF exp.ok THEN acceptRun(accept(exp.l, {"+", "-"}).l, decimal) ELSE exp,
       LAMBDA expRun :
    IF exp.ok /\ ~expRun.ok
    THEN errorf(expRun.l, <<"malformed exponent of floating-point constant">>)
    ELSE
  \* Imaginary.
  With(accept(expRun.l, {"i"}), LAMBDA imag :
    Return(emit(imag.l, IF imag.ok THEN "Imag" ELSE IF exp.ok THEN "Float" ELSE kind),
           "lexToken"))))))))))

\* The value of a hexadecimal or octal digit.
digitVal(c) ==
  CASE c \in decimal -> CHOOSE v \in 0..9 : <<"0", "1", "2", "3", "4", "5", "6", "7", "8", "9">>[v + 1] = c
    [] c \in {"A", "a"} -> 10
    [] c \in {"B", "b"} -> 11
    [] c \in {"C", "c"} -> 12
    [] c \in {"D", "d"} -> 13
    [] c \in {"E", "e"} -> 14
    [] c \in {"F", "f"} -> 15

\* The number that a string of at most four digits denotes in a base.
RECURSIVE digitsVal(_, _)
digitsVal(s, base) ==
  IF s = <<>> THEN 0
  ELSE digitsVal(SubSeq(s, 1, Len(s) - 1), base) * base + digitVal(s[Len(s)])

\* rune(x) that drops the top bit of x instead of turning it into the sign.
int32DropSign(hi, lo) == (hi % 32768) * 65536 + lo

\* rune(x) for x = hi * 2^16 + lo, the result of strconv.ParseUint(s, 16, 32):
\* the conversion to int32 wraps around.
int32(hi, lo) ==
  IF hi >= 32768 THEN (hi - 65536) * 65536 + lo ELSE hi * 65536 + lo

\* utf8.ValidRune without the check for surrogate halves.
ValidRuneNoSurrogates(r) == 0 <= r /\ r <= 1114111

\* utf8.ValidRune.
ValidRune(r) == (0 <= r /\ r < 55296) \/ (57343 < r /\ r <= 1114111)

\* n successive l.accept(hex); stops at the first that fails.
RECURSIVE acceptN(_, _, _)
acceptN(l, valid, n) ==
  IF n = 0 THEN [l |-> l, ok |-> TRUE]
  ELSE With(accept(l, valid), LAMBDA a :
         IF a.ok THEN acceptN(a.l, valid, n - 1) ELSE a)

\* err is <<>> for a nil error, the message otherwise.
consumeEscape(l, valid) ==
  With(next(l), LAMBDA n :
    CASE n.r \in {"0", "1", "2", "3"} ->
           With(acceptN(n.l, octal, 2), LAMBDA a :
             IF ~a.ok
             THEN With(next(a.l), LAMBDA bad :
                    [l |-> bad.l,
                     err |-> <<"non-octal character ", bad.r, " in octal escape">>])
             ELSE IF digitsVal(Slice(a.l.input, a.l.pos - 3, a.l.pos), 8) > 255
             THEN [l |-> a.l, err |-> <<"invalid octal escape; value out of range">>]
             ELSE [l |-> a.l, err |-> <<>>])
      [] n.r = "x" ->
           With(acceptN(n.l, hex, 2), LAMBDA a :
             IF ~a.ok
             THEN With(next(a.l), LAMBDA bad :
                    [l |-> bad.l,
                     err |-> <<"non-hex character ", bad.r, " in hex escape">>])
             ELSE [l |-> a.l, err |-> <<>>])
      [] n.r \in {"u", "U"} ->
           With(IF n.r = "U" THEN 8 ELSE 4, LAMBDA k :
           With(acceptN(n.l, hex, k), LAMBDA a :
             IF ~a.ok
             THEN With(next(a.l), LAMBDA bad :
                    [l |-> bad.l,
                     err |-> <<"non-hex character ", bad.r, " in Unicode escape">>])
             ELSE With(Slice(a.l.input, a.l.pos - k, a.l.pos), LAMBDA s :
                    IF ~ValidRune(int32(digitsVal(SubSeq(s, 1, k - 4), 16),
                                        digitsVal(SubSeq(s, k - 3, k), 16)))
                    THEN [l |-> a.l, err |-> <<"invalid rune in Unicode escape">>]
                    ELSE [l |-> a.l, err |-> <<>>])))
      [] n.r \in {"a", "b", "f", "n", "r", "t", "v", "\\", valid} ->
           [l |-> n.l, err |-> <<>>]
      [] OTHER -> [l |-> n.l, err |-> <<"unknown escape sequence: ", n.r>>])

\* The end of lexRune, after the switch.
closeRune(l) ==
  With(accept(l, {"'"}), LAMBDA quote :
    IF ~quote.ok
    THEN errorf(quote.l, <<"missing ' in rune literal">>)
    ELSE Return(emit(quote.l, "Rune"), "lexToken"))

lexRune(l) ==
  With(next(l), LAMBDA n :
    CASE n.r = eof -> errorf(n.l, <<"unexpected eof in rune literal">>)
      [] n.r = "\n" -> errorf(n.l, <<"unexpected newline in rune literal">>)
      [] n.r = "\\" ->
           With(consumeEscape(n.l, "'"), LAMBDA esc :
             IF esc.err # <<>>
             THEN errorf(esc.l, <<"invalid escape sequence in interpreted string literal; ">>
                                \o esc.err)
             ELSE closeRune(esc.l))
      [] OTHER -> closeRune(n.l))

RECURSIVE lexString(_)
lexString(l) ==
  With(next(l), LAMBDA n :
    CASE n.r = eof -> errorf(n.l, <<"unexpected eof in interpreted string literal">>)
      [] n.r = "\n" ->
           errorf(n.l, <<"unexpected newline in interpreted string literal">>)
      [] n.r = "\\" ->
           With(consumeEscape(n.l, "\""), LAMBDA esc :
             IF esc.err # <<>>
             THEN errorf(esc.l, <<"invalid escape sequence in interpreted string literal; ">>
                                \o esc.err)
             ELSE lexString(esc.l))
      [] n.r = "\"" -> Return(emit(n.l, "String"), "lexToken")
      [] OTHER -> lexString(n.l))

RECURSIVE lexRawString(_)
lexRawString(l) ==
  With(next(l), LAMBDA n :
      CASE n.r = eof -> errorf(n.l, <<"unexpected eof in raw string literal">>)
        [] n.r = backquote -> Return(emit(n.l, "String"), "lexToken")
        [] OTHER -> lexRawString(n.l))

keywords ==
     (<<"b", "r", "e", "a", "k">> :> "Break")
  @@ (<<"c", "a", "s", "e">> :> "Case")
  @@ (<<"c", "h", "a", "n">> :> "Chan")
  @@ (<<"c", "o", "n", "s", "t">> :> "Const")
  @@ (<<"c", "o", "n", "t", "i", "n", "u", "e">> :> "Continue")
  @@ (<<"d", "e", "f", "a", "u", "l", "t">> :> "Default")
  @@ (<<"d", "e", "f", "e", "r">> :> "Defer")
  @@ (<<"e", "l", "s", "e">> :> "Else")
  @@ (<<"f", "a", "l", "l", "t", "h", "r", "o", "u", "g", "h">> :> "Fallthrough")
  @@ (<<"f", "o", "r">> :> "For")
  @@ (<<"f", "u", "n", "c">> :> "Func")
  @@ (<<"g", "o">> :> "Go")
  @@ (<<"g", "o", "t", "o">> :> "Goto")
  @@ (<<"i", "f">> :> "If")
  @@ (<<"i", "m", "p", "o", "r", "t">> :> "Import")
  @@ (<<"i", "n", "t", "e", "r", "f", "a", "c", "e">> :> "Interface")
  @@ (<<"m", "a", "p">> :> "Map")
  @@ (<<"p", "a", "c", "k", "a", "g", "e">> :> "Package")
  @@ (<<"r", "a", "n", "g", "e">> :> "Range")
  @@ (<<"r", "e", "t", "u", "r", "n">> :> "Return")
  @@ (<<"s", "e", "l", "e", "c", "t">> :> "Select")
  @@ (<<"s", "t", "r", "u", "c", "t">> :> "Struct")
  @@ (<<"s", "w", "i", "t", "c", "h">> :> "Switch")
  @@ (<<"t", "y", "p", "e">> :> "Type")
  @@ (<<"v", "a", "r">> :> "Var")

RECURSIVE identLoop(_)
identLoop(l) ==
  With(next(l), LAMBDA n :
      IF ~isLetter(n.r) /\ ~IsDigit(n.r) THEN backup(n.l) ELSE identLoop(n.l))

lexKeywordOrIdent(l) ==
  With(identLoop(l), LAMBDA b :
    With(Slice(b.input, b.start, b.pos), LAMBDA s :
      IF s \in DOMAIN keywords
      THEN Return(emit(b, keywords[s]), "lexToken")
      ELSE Return(emit(b, "Ident"), "lexToken")))

\* The state function that a state names.
stateFn(l) ==
  CASE l.state = "lexToken" -> lexToken(l)
    [] l.state = "lexDivOrComment" -> lexDivOrComment(l)
    [] l.state = "lexLineComment" -> lexLineComment(l)
    [] l.state = "lexGeneralComment" -> lexGeneralComment(l)
    [] l.state = "lexNot" -> lexNot(l)
    [] l.state = "lexLessArrowOrShl" -> lexLessArrowOrShl(l)
    [] l.state = "lexGreaterOrShr" -> lexGreaterOrShr(l)
    [] l.state = "lexAndOrClear" -> lexAndOrClear(l)
    [] l.state = "lexOr" -> lexOr(l)
    [] l.state = "lexEqOrAssign" -> lexEqOrAssign(l)
    [] l.state = "lexColonOrDeclAssign" -> lexColonOrDeclAssign(l)
    [] l.state = "lexMul" -> lexMul(l)
    [] l.state = "lexMod" -> lexMod(l)
    [] l.state = "lexXor" -> lexXor(l)
    [] l.state = "lexAddOrInc" -> lexAddOrInc(l)
    [] l.state = "lexSubOrDec" -> lexSubOrDec(l)
    [] l.state = "lexDotOrNumber" -> lexDotOrNumber(l)
    [] l.state = "lexRune" -> lexRune(l)
    [] l.state = "lexString" -> lexString(l)
    [] l.state = "lexRawString" -> lexRawString(l)
    [] l.state = "lexKeywordOrIdent" -> lexKeywordOrIdent(l)

\* lex: runs the active state function until it returns the nil state (or
\* log.Fatal ends the program).
RECURSIVE lex(_)
lex(l) == IF l.state \in {"nil", "fatal"} THEN l ELSE lex(stateFn(l))

\* Parse(input): the lexer when lex is over; its tokens are the result.
Parse(in) == lex(NewLexer(in))

(* --------------------------- the state machine ------------------------- *)

\* One iteration of the loop of lex: state = state(l).
Run(l) ==
  /\ input' = l.input
  /\ start' = l.start
  /\ pos' = l.pos
  /\ width' = l.width
  /\ tokens' = l.tokens
  /\ line' = l.line
  /\ state' = l.state
  /\ UNCHANGED <<theKind, class, second>>

LexToken == state = "lexToken" /\ Run(lexToken(Cur))

LexDivOrComment == state = "lexDivOrComment" /\ Run(lexDivOrComment(Cur))

LexLineComment == state = "lexLineComment" /\ Run(lexLineComment(Cur))

LexGeneralComment == state = "lexGeneralComment" /\ Run(lexGeneralComment(Cur))

LexNot == state = "lexNot" /\ Run(lexNot(Cur))

LexLessArrowOrShl == state = "lexLessArrowOrShl" /\ Run(lexLessArrowOrShl(Cur))

LexGreaterOrShr == state = "lexGreaterOrShr" /\ Run(lexGreaterOrShr(Cur))

LexAndOrClear == state = "lexAndOrClear" /\ Run(lexAndOrClear(Cur))

LexOr == state = "lexOr" /\ Run(lexOr(Cur))

LexEqOrAssign == state = "lexEqOrAssign" /\ Run(lexEqOrAssign(Cur))

LexColonOrDeclAssign == state = "lexColonOrDeclAssign" /\ Run(lexColonOrDeclAssign(Cur))

LexMul == state = "lexMul" /\ Run(lexMul(Cur))

LexMod == state = "lexMod" /\ Run(lexMod(Cur))

LexXor == state = "lexXor" /\ Run(lexXor(Cur))

LexAddOrInc == state = "lexAddOrInc" /\ Run(lexAddOrInc(Cur))

LexSubOrDec == state = "lexSubOrDec" /\ Run(lexSubOrDec(Cur))

LexDotOrNumber == state = "lexDotOrNumber" /\ Run(lexDotOrNumber(Cur))

LexRune == state = "lexRune" /\ Run(lexRune(Cur))

LexString == state = "lexString" /\ Run(lexString(Cur))

LexRawString == state = "lexRawString" /\ Run(lexRawString(Cur))

LexKeywordOrIdent == state = "lexKeywordOrIdent" /\ Run(lexKeywordOrIdent(Cur))

(* ------------------------------ inputs --------------------------------- *)

\* Fragments of source text that exercise line ends: identifier, keyword,
\* explicit semicolon, newline, space, two general comments without a
\* newline and one with, the start of a line comment, a closing brace.
CoreFrags ==
  {<<"a">>,
   <<"r", "e", "t", "u", "r", "n">>,
   <<";">>,
   <<"\n">>,
   <<" ">>,
   <<"/", "*", "*", "/">>,
   <<"/", "*", "c", "*", "/">>,
   <<"/", "*", "\n", "*", "/">>,
   <<"/", "/">>,
   <<"}">>}

\* One fragment for every token family and every malformed construct.
WideFrags ==
  {<<"a">>,
   <<"_">>,
   <<"xC3", "xA9">>,
   <<"a", "1">>,
   <<"g", "o">>,
   <<"i", "f">>,
   <<"b", "r", "e", "a", "k">>,
   <<"c", "o", "n", "t", "i", "n", "u", "e">>,
   <<"f", "a", "l", "l", "t", "h", "r", "o", "u", "g", "h">>,
   <<"r", "e", "t", "u", "r", "n">>,
   <<"p", "a", "c", "k", "a", "g", "e">>,
   <<"c", "a", "s", "e">>,
   <<"c", "h", "a", "n">>,
   <<"c", "o", "n", "s", "t">>,
   <<"d", "e", "f", "a", "u", "l", "t">>,
   <<"d", "e", "f", "e", "r">>,
   <<"e", "l", "s", "e">>,
   <<"f", "o", "r">>,
   <<"f", "u", "n", "c">>,
   <<"g", "o", "t", "o">>,
   <<"i", "m", "p", "o", "r", "t">>,
   <<"i", "n", "t", "e", "r", "f", "a", "c", "e">>,
   <<"m", "a", "p">>,
   <<"r", "a", "n", "g", "e">>,
   <<"s", "e", "l", "e", "c", "t">>,
   <<"s", "t", "r", "u", "c", "t">>,
   <<"s", "w", "i", "t", "c", "h">>,
   <<"t", "y", "p", "e">>,
   <<"v", "a", "r">>,
   <<"g", "o", "t", "o", "x">>,
   <<"_", "i", "f">>,
   <<"I", "f">>,
   <<"i", "f", "1">>,
   <<"x", "1">>,
   <<"_", "1">>,
   <<"i", "f", "xC3", "xA9">>,
   <<"0">>,
   <<"1">>,
   <<"0", "7">>,
   <<"0", "x">>,
   <<"0", "x", "1", "F">>,
   <<"1", ".">>,
   <<".", "5">>,
   <<"1", "e">>,
   <<"1", "e", "+", "2">>,
   <<"2", "i">>,
   <<"0", "x", "1", "F", "i">>,
   <<"0", "X", "a">>,
   <<"0", "X">>,
   <<"0", "x", "g">>,
   <<"1", ".", "5">>,
   <<"1", ".", "5", "e", "-", "3", "i">>,
   <<"1", "e", "2", "i">>,
   <<"0", "i">>,
   <<".", "5", "i">>,
   <<"1", ".", "i">>,
   <<"0", "8", "9">>,
   <<"0", "7", "8">>,
   <<"0", "7", "9">>,
   <<"0", "7", "7">>,
   <<"0", "7", "8", ".">>,
   <<"0", "7", "8", "e", "0">>,
   <<"0", "7", "8", "i">>,
   <<"0", "9", ".", "5">>,
   <<"1", "E", "5">>,
   <<"1", "e", "+">>,
   <<".", "5", "e", "1">>,
   <<"1", ".", "e", "1">>,
   <<"0", "e", "0">>,
   <<"0", ".", "5">>,
   <<"0", "0", "x", "1">>,
   <<".">>,
   <<".", ".", ".">>,
   <<".", ".">>,
   <<".", ".", ".", ".">>,
   <<".", ".", "5">>,
   <<".", ".", ".", ".", ".">>,
   <<".", ".", ".", ".", ".", ".">>,
   <<"'", "a", "'">>,
   <<"'", "'", "'">>,
   <<"'", "xEF", "xBB", "xBF", "'">>,
   <<"'", "x00", "'">>,
   <<"'", "x80", "'">>,
   <<"'", "a", "b", "'">>,
   <<"'", "xC3", "xA9", "'">>,
   <<"'", "\\", "\"", "'">>,
   <<"'", "\\", "4", "0", "0", "'">>,
   <<"'", "\\", "3", "7", "7", "'">>,
   <<"'", "\\", "0", "8", "'">>,
   <<"'", "\\", "x", "4", "g", "'">>,
   <<"'", "\\", "\\", "'">>,
   <<"'", "\\", "u", "D", "F", "F", "F", "'">>,
   <<"'", "\\", "U", "0", "0", "1", "1", "0", "0", "0", "0", "'">>,
   <<"'", "\\", "U", "0", "0", "0", "0", "d", "8", "0", "0", "'">>,
   <<"'", "\\", "U", "0", "0", "0", "0", "0", "0", "4", "1", "'">>,
   <<"'", "\\">>,
   <<"'", "\\", "0", "0">>,
   <<"'", "\\", "a">>,
   <<"'", "a">>,
   <<"'", "\n", "'">>,
   <<"\"", "\\", "'", "\"">>,
   <<"\"", "\\", "x", "4", "1", "\\", "n", "\"">>,
   <<"\"", "\\", "0", "0", "\"">>,
   <<"'", "'">>,
   <<"'", "\\", "n", "'">>,
   <<"'", "\\", "'", "'">>,
   <<"'", "\\", "1", "0", "1", "'">>,
   <<"'", "\\", "x", "4", "1", "'">>,
   <<"'", "\\", "u", "0", "0", "e", "9", "'">>,
   <<"'", "\\", "U", "0", "0", "1", "0", "F", "F", "F", "F", "'">>,
   <<"'", "\\", "U", "F", "F", "F", "F", "F", "F", "F", "F", "'">>,
   <<"'", "\\", "U", "8", "0", "0", "0", "0", "0", "4", "1", "'">>,
   <<"\"", "\\", "U", "0", "0", "0", "1", "F", "6", "0", "0", "\"">>,
   <<"'", "\\", "u", "d", "8", "0", "0", "'">>,
   <<"'", "\\", "8", "'">>,
   <<"'", "\\", "1", "'">>,
   <<"'", "\\", "x">>,
   <<"'", "\\", "u", "1", "2">>,
   <<"'">>,
   <<"\"", "s", "\"">>,
   <<"\"", "\\", "\"", "\"">>,
   <<"\"", "\\", "q", "\"">>,
   <<"\"", "\\", "\\", "\"">>,
   <<"\"", "\\", "\"">>,
   <<"\"", "a", "\\", "\"", "b", "\"">>,
   <<"\"", "a", "b">>,
   <<"\"", "a", "b", "c", "\"">>,
   <<"\"", "\"">>,
   <<"\"">>,
   <<"x60", "r", "x60">>,
   <<"x60", "\n", "x60">>,
   <<"x60">>,
   <<"!">>,
   <<"!", "=">>,
   <<"<">>,
   <<"<", "-">>,
   <<"<", "<">>,
   <<"<", "<", "=">>,
   <<"<", "=">>,
   <<">">>,
   <<">", ">">>,
   <<">", ">", "=">>,
   <<">", "=">>,
   <<"&">>,
   <<"&", "^">>,
   <<"&", "^", "=">>,
   <<"&", "&">>,
   <<"&", "=">>,
   <<"|">>,
   <<"|", "|">>,
   <<"|", "=">>,
   <<"=">>,
   <<"=", "=">>,
   <<":">>,
   <<":", "=">>,
   <<"*">>,
   <<"*", "=">>,
   <<"%">>,
   <<"%", "=">>,
   <<"^">>,
   <<"^", "=">>,
   <<"+">>,
   <<"+", "+">>,
   <<"+", "=">>,
   <<"-">>,
   <<"-", "-">>,
   <<"-", "=">>,
   <<"/">>,
   <<"/", "=">>,
   <<"(">>,
   <<"[">>,
   <<"{">>,
   <<")">>,
   <<"]">>,
   <<"}">>,
   <<",">>,
   <<";">>,
   <<"/", "/", "c">>,
   <<"/", "*", "c", "*", "/">>,
   <<"/", "*", "\n", "*", "/">>,
   <<"/", "*">>,
   <<"/", "*", "/">>,
   <<"/", "*", "\r", "*", "/">>,
   <<"/", "*", "a", "\r", "\n", "b", "*", "/">>,
   <<"x60", "\r", "x60">>,
   <<"x60", "f", "\r", "\n", "b", "x60">>,
   <<"#">>,
   <<"xEF", "xBB", "xBF">>,
   <<"xEF", "xBB", "xBF", "xEF", "xBB", "xBF">>,
   <<" ", "xEF", "xBB", "xBF">>,
   <<"a", " ", "xEF", "xBB", "xBF">>,
   <<"/", "/", "a", "xEF", "xBB", "xBF", "b">>,
   <<"/", "*", "xEF", "xBB", "xBF", "*", "/">>,
   <<"\"", "a", "xEF", "xBB", "xBF", "\"">>,
   <<"x60", "xEF", "xBB", "xBF", "x60">>,
   <<"/", "/", "a", "x00", "b">>,
   <<"/", "*", "x00", "*", "/">>,
   <<"\"", "a", "x00", "\"">>,
   <<"x60", "x00", "x60">>,
   <<"x00">>,
   <<"x80">>,
   <<"\t">>,
   <<"\r">>,
   <<"\n">>,
   <<" ">>}

\* What follows a fragment of WideFrags.
TailFrags ==
  {<<"\n">>,
   <<" ">>,
   <<"a">>,
   <<";">>,
   <<"=">>}

RECURSIVE Concat(_)
Concat(fs) == IF fs = <<>> THEN <<>> ELSE Head(fs) \o Concat(Tail(fs))

SeqsUpTo(S, n) == UNION {[1..k -> S] : k \in 0..n}

Inputs ==
  {Concat(fs) : fs \in SeqsUpTo(CoreFrags, MaxFrags)}
    \cup {w \o Concat(t) : w \in WideFrags, t \in SeqsUpTo(TailFrags, MaxTail)}

Init ==
  /\ input \in Inputs
  /\ start = 0
  /\ pos = 0
  /\ width = 0
  /\ tokens = <<>>
  /\ line = 0
  /\ state = "lexToken"
  /\ theKind = 0
  /\ class = <<>>
  /\ second = NewLexer(<<>>)

Next ==
  \/ LexToken
  \/ LexDivOrComment
  \/ LexLineComment
  \/ LexGeneralComment
  \/ LexNot
  \/ LexLessArrowOrShl
  \/ LexGreaterOrShr
  \/ LexAndOrClear
  \/ LexOr
  \/ LexEqOrAssign
  \/ LexColonOrDeclAssign
  \/ LexMul
  \/ LexMod
  \/ LexXor
  \/ LexAddOrInc
  \/ LexSubOrDec
  \/ LexDotOrNumber
  \/ LexRune
  \/ LexString
  \/ LexRawString
  \/ LexKeywordOrIdent

Spec == Init /\ [][Next]_vars

(* ------------------------------ properties ----------------------------- *)

\* lex is over: the nil state was returned, or log.Fatal ended the program.
Finished == state \in {"nil", "fatal"}

Range(s) == {s[i] : i \in DOMAIN s}

Last(s) == s[Len(s)]

NumSemicolons(toks) ==
  Cardinality({i \in DOMAIN toks : toks[i].Kind = "Semicolon"})

\* Index (from 1) of the last non-comment token of the line that starts
\* after the first ln tokens; 0 if the line has no such token.
LastCode(toks, ln) ==
  LET S == {i \in (ln + 1)..Len(toks) : toks[i].Kind # "Comment"}
  IN  IF S = {} THEN 0 ELSE CHOOSE i \in S : \A j \in S : j <= i

\* The trigger set as the specification of Go states it.
SemicolonTriggers ==
  {"Ident", "Int", "Float", "Imag", "Rune", "String", "Break", "Continue",
   "Fallthrough", "Return", "Inc", "Dec", "Rparen", "Rbrack", "Rbrace"}

LineTriggers(toks, ln) ==
  LastCode(toks, ln) # 0 /\ toks[LastCode(toks, ln)].Kind \in SemicolonTriggers

\* toks with a semicolon right after its k-th token.
InsertAfter(toks, k) ==
  SubSeq(toks, 1, k) \o <<[Kind |-> "Semicolon", Val |-> <<";">>]>>
    \o SubSeq(toks, k + 1, Len(toks))

\* What the tokens of a line must be once the line has ended.
LineEnded(toks, ln) ==
  IF LineTriggers(toks, ln) THEN InsertAfter(toks, LastCode(toks, ln)) ELSE toks

RECURSIVE SkipBlank(_, _)
SkipBlank(in, p) ==
  IF p < Len(in) /\ in[p + 1] \in {" ", "\t", "\r"} THEN SkipBlank(in, p + 1) ELSE p

\* lexToken is about to read a newline, or the end of the input.
AtNewline ==
  /\ state = "lexToken"
  /\ SkipBlank(input, pos) < Len(input)
  /\ input[SkipBlank(input, pos) + 1] = "\n"

AtEndOfInput == state = "lexToken" /\ SkipBlank(input, pos) = Len(input)

\* This step lexes a whole general comment that has a newline in it.
MultiLineCommentStep ==
  /\ state = "lexGeneralComment"
  /\ state' = "lexToken"
  /\ "\n" \in Range(Last(tokens').Val)

\* No semicolon is written in the input, so every Semicolon is synthetic.
NoSemicolonInSource == ";" \notin Range(input)

C2_SemicolonBeforeTrailingComments ==
  [][((AtNewline \/ AtEndOfInput \/ state = "lexLineComment" \/ MultiLineCommentStep)
        /\ LineTriggers(tokens, line)
        /\ LastCode(tokens, line) < Len(tokens))
       => /\ Len(tokens') >= Len(tokens) + 1
          /\ SubSeq(tokens', 1, Len(tokens) + 1)
               = InsertAfter(tokens, LastCode(tokens, line))]_vars

\* A semicolon stands between a trigger token and two different trailing
\* general comments, which were moved to make room for it.
C2_Witness ==
  /\ NoSemicolonInSource
  /\ \E i \in 2..(Len(tokens) - 2) :
       /\ tokens[i].Kind = "Semicolon"
       /\ tokens[i - 1].Kind \in SemicolonTriggers
       /\ tokens[i + 1].Kind = "Comment"
       /\ tokens[i + 2].Kind = "Comment"
       /\ tokens[i + 1] # tokens[i + 2]
       /\ HasPrefix(tokens[i + 1].Val, <<"/", "*">>)
       /\ HasPrefix(tokens[i + 2].Val, <<"/", "*">>)
       /\ "\n" \notin Range(tokens[i + 1].Val)
       /\ "\n" \notin Range(tokens[i + 2].Val)

\* C3: no step changes, removes or reorders a token of an earlier line, nor
\* a token of the current line up to its last non-comment token; l.line
\* never decreases, and the old tokens stay in order with at most one
\* semicolon put between them.
C3_EarlierLinesFrozen ==
  [][LET frozen == IF LastCode(tokens, line) > line THEN LastCode(tokens, line)
                   ELSE line
     IN  /\ line <= line'
         /\ line' <= Len(tokens')
         /\ Len(tokens) <= Len(tokens')
         /\ \A i \in 1..frozen : tokens'[i] = tokens[i]
         /\ \/ SubSeq(tokens', 1, Len(tokens)) = tokens
            \/ \E k \in frozen..Len(tokens) :
                 SubSeq(tokens', 1, Len(tokens) + 1) = InsertAfter(tokens, k)]_vars

\* A second line has received a semicolon behind a trailing comment while
\* an earlier line is in the output.
C3_Witness ==
  /\ NoSemicolonInSource
  /\ \E i \in 3..(Len(tokens) - 1) :
       /\ tokens[i].Kind = "Semicolon"
       /\ tokens[i + 1].Kind = "Comment"
       /\ HasPrefix(tokens[i + 1].Val, <<"/", "*">>)
       /\ "\n" \notin Range(tokens[i + 1].Val)
       /\ \E j \in 1..(i - 2) : tokens[j].Kind = "Semicolon"

\* C4: no execution reaches a panic or log.Fatal; in particular backup is
\* never called while width is 0.
C4_NeverFatal == state # "fatal"

\* C5: once the token of a malformed construct is emitted, scanning goes on
\* with the next rune: the state machine is back in lexToken.
C5_ScanResumesAfterError ==
  [][(Len(tokens') > Len(tokens) /\ Last(tokens').Kind = "Error")
       => state' = "lexToken"]_vars

StateNames ==
  {"lexToken", "lexDivOrComment", "lexLineComment", "lexGeneralComment",
   "lexNot", "lexLessArrowOrShl", "lexGreaterOrShr", "lexAndOrClear", "lexOr",
   "lexEqOrAssign", "lexColonOrDeclAssign", "lexMul", "lexMod", "lexXor",
   "lexAddOrInc", "lexSubOrDec", "lexDotOrNumber", "lexRune", "lexString",
   "lexRawString", "lexKeywordOrIdent"}

\* C6: every state function ends the scan with the nil state or returns a
\* state; when it returns to lexToken, pos has advanced since lexToken was
\* last entered (start is never below that position); pos never exceeds
\* len(input).
C6_StateLoopProgress ==
  [][/\ state' \in StateNames \cup {"nil"}
     /\ pos' <= Len(input)
     /\ state' = "lexToken" => pos' > (IF state = "lexToken" THEN pos ELSE start)]_vars

\* C7: for an input s that does not end in a newline, Parse(s) returns the
\* tokens (kinds and values) that Parse(s + "\n") returns.
C7_EofActsAsNewline ==
  (Finished /\ (input = <<>> \/ Last(input) # "\n"))
    => /\ state = "nil"
       /\ Parse(input \o <<"\n">>).state = "nil"
       /\ tokens = Parse(input \o <<"\n">>).tokens

\* C8: a general comment with a newline in it ends the line (the semicolon
\* of the tokens before it is inserted, and the next line starts at the
\* comment); a general comment without a newline is appended like any
\* token and leaves the line as it is.
C8_GeneralCommentNewline ==
  [][(state = "lexGeneralComment" /\ state' = "lexToken")
       => /\ Last(tokens').Kind = "Comment"
          /\ IF "\n" \in Range(Last(tokens').Val)
             THEN /\ tokens' = Append(LineEnded(tokens, line), Last(tokens'))
                  /\ line' = Len(tokens') - 1
             ELSE /\ tokens' = Append(tokens, Last(tokens'))
                  /\ line' = line]_vars

\* A multi-line general comment has just ended a line that got a semicolon.
C8_Witness ==
  /\ state = "lexToken"
  /\ NoSemicolonInSource
  /\ Len(tokens) >= 3
  /\ line = Len(tokens) - 1
  /\ Last(tokens).Kind = "Comment"
  /\ "\n" \in Range(Last(tokens).Val)
  /\ tokens[Len(tokens) - 1].Kind = "Semicolon"
  /\ tokens[Len(tokens) - 2].Kind \in SemicolonTriggers

Blank(in) == \A i \in DOMAIN in : in[i] \in {" ", "\t", "\r", "\n"}

\* C9: a line end on a line without a non-comment token inserts nothing,
\* whatever the line before ended in; an input of spaces, tabs, carriage
\* returns and newlines yields the end-of-input token and nothing else.
C9_NoSemicolonOnBlankLine ==
  [][/\ ((AtNewline \/ AtEndOfInput \/ state = "lexLineComment" \/ MultiLineCommentStep)
           /\ LastCode(tokens, line) = 0)
          => NumSemicolons(tokens') = NumSemicolons(tokens)
     /\ (Blank(input) /\ state' \in {"nil", "fatal"})
          => (state' = "nil" /\ tokens' = <<[Kind |-> "EOF", Val |-> <<>>]>>)]_vars

\* The line after a line that got a semicolon has ended, blank or with
\* comments only, and the scan is over with that one semicolon.
C9_Witness ==
  /\ state = "nil"
  /\ NoSemicolonInSource
  /\ Len(tokens) >= 3
  /\ tokens[2].Kind = "Semicolon"
  /\ line >= 2
  /\ \A i \in 3..Len(tokens) : tokens[i].Kind \in {"Comment", "EOF"}
  /\ \E i \in 2..(Len(input) - 1) : input[i] = "\n" /\ "\n" \in Range(SubSeq(input, i + 1, Len(input)))

\* The tokens from the k-th on are substrings of the input at increasing
\* offsets from p on, and only white space (and a byte order mark at
\* offset 0) lies between and after them.  A Semicolon may be synthetic and
\* the end-of-input token has no text.
RECURSIVE Covers(_, _, _, _)
Covers(in, toks, k, p) ==
  LET bom == IF p = 0 /\ HasPrefix(in, <<"xEF", "xBB", "xBF">>) THEN 3 ELSE 0
      q == IF p + bom < Len(in) /\ in[p + bom + 1] \in {" ", "\t", "\r", "\n"}
           THEN p + bom + 1 ELSE p + bom
      v == toks[k].Val
  IN  IF q > p THEN Covers(in, toks, k, q)
      ELSE IF k > Len(toks) THEN p = Len(in)
      ELSE \/ toks[k] = [Kind |-> "Semicolon", Val |-> <<";">>] /\ Covers(in, toks, k + 1, p)
           \/ toks[k] = [Kind |-> "EOF", Val |-> <<>>] /\ k = Len(toks)
                /\ Covers(in, toks, k + 1, p)
           \/ /\ v # <<>>
              /\ p + Len(v) <= Len(in)
              /\ Slice(in, p, p + Len(v)) = v
              /\ Covers(in, toks, k + 1, p + Len(v))

\* C10: the values of the tokens that Parse returns are disjoint substrings
\* of the input at increasing offsets, and every byte that no value covers
\* is white space or the leading byte order mark.
C10_ValuesCoverInput == state = "nil" => Covers(input, tokens, 1, 0)

\* C11: no token has an empty value, other than the end-of-input token,
\* and every semicolon, also an inserted one, has the value ";".
C11_NoEmptyValue ==
  \A i \in DOMAIN tokens :
    /\ tokens[i].Val = <<>> => tokens[i].Kind = "EOF"
    /\ tokens[i].Kind = "Semicolon" => tokens[i].Val = <<";">>

\* Parse has returned tokens with an inserted semicolon and the end-of-input
\* token, whose value is empty.
C11_Witness ==
  /\ state = "nil"
  /\ NoSemicolonInSource
  /\ \E i \in DOMAIN tokens : tokens[i].Kind = "Semicolon"
  /\ Last(tokens) = [Kind |-> "EOF", Val |-> <<>>]

\* The fields Line and Col of token.Token: the composite literals of emit,
\* errorf and insertSemicolon set Kind and Val only, which leaves every other
\* field of the token at the zero value, and nothing assigns them later.
Line(tok) == 0

Col(tok) == 0

\* The 1-based line of the byte at offset off.
LineAt(in, off) == 1 + Cardinality({i \in 1..off : in[i] = "\n"})

\* The offset at which the line of the byte at offset off starts.
LineStart(in, off) ==
  IF \E i \in 1..off : in[i] = "\n"
  THEN CHOOSE i \in 1..off : in[i] = "\n" /\ \A j \in (i + 1)..off : in[j] # "\n"
  ELSE IF HasPrefix(in, <<"xEF", "xBB", "xBF">>) /\ off >= 3 THEN 3
  ELSE 0

\* The number of runes from offset a up to offset b.
RECURSIVE RuneCount(_, _, _)
RuneCount(in, a, b) ==
  IF a >= b THEN 0 ELSE 1 + RuneCount(in, a + DecodeRuneInString(in, a).w, b)

\* The 1-based column, in runes, of the byte at offset off.
ColAt(in, off) == 1 + RuneCount(in, LineStart(in, off), off)

\* (Line, Col) does not decrease along toks.
PositionsOrdered(toks) ==
  \A i \in 1..(Len(toks) - 1) :
    \/ Line(toks[i]) < Line(toks[i + 1])
    \/ Line(toks[i]) = Line(toks[i + 1]) /\ Col(toks[i]) <= Col(toks[i + 1])

\* The index in tokens' of the token that this step emitted from the input,
\* when it emitted one: the newest token, the end-of-input token aside.
EmittedIndex == IF Last(tokens').Kind = "EOF" THEN Len(tokens') - 1 ELSE Len(tokens')

\* This step emitted the token at EmittedIndex: its value is the text of
\* the input that ends where the next token starts.
EmittedFromInput ==
  /\ Len(tokens') > Len(tokens)
  /\ state' # "fatal"
  /\ EmittedIndex >= 1
  /\ tokens'[EmittedIndex].Kind # "Error"
  /\ start' >= Len(tokens'[EmittedIndex].Val)
  /\ Slice(input, start' - Len(tokens'[EmittedIndex].Val), start')
       = tokens'[EmittedIndex].Val

\* C12: every token carries a line and a column that count from 1, the
\* token that a step emits carries the line and the rune-counted column of
\* its first character, and (line, column) never decreases along the tokens.
C12_TokenPositions ==
  [][/\ \A i \in DOMAIN tokens' : Line(tokens'[i]) >= 1 /\ Col(tokens'[i]) >= 1
     /\ PositionsOrdered(tokens')
     /\ EmittedFromInput =>
          LET tok == tokens'[EmittedIndex]
              off == start' - Len(tok.Val)
          IN  Line(tok) = LineAt(input, off) /\ Col(tok) = ColAt(input, off)]_vars

\* The line on which the text of tok ends, and the column right after it.
EndLine(tok) == Line(tok) + Cardinality({i \in DOMAIN tok.Val : tok.Val[i] = "\n"})

EndCol(tok) ==
  IF "\n" \in Range(tok.Val)
  THEN ColAt(tok.Val, Len(tok.Val))
  ELSE Col(tok) + RuneCount(tok.Val, 0, Len(tok.Val))

\* C13: the semicolon that a line end inserts carries the line and the
\* column of the position right after the last non-comment token of the
\* line, whatever spaces and comments follow that token.
C13_SemicolonPosition ==
  [][((AtNewline \/ AtEndOfInput \/ state = "lexLineComment" \/ MultiLineCommentStep)
        /\ LineTriggers(tokens, line) /\ state' # "fatal")
       => LET k == LastCode(tokens, line)
          IN  /\ tokens'[k + 1].Kind = "Semicolon"
              /\ Line(tokens'[k + 1]) = EndLine(tokens[k])
              /\ Col(tokens'[k + 1]) = EndCol(tokens[k])]_vars

\* The runes that lexToken hands to a state or emits as a delimiter.
Claimed(r) ==
  \/ r \in {"\n", "/", "!", "<", ">", "&", "|", "=", ":", "*", "%", "^", "+", "-",
            "(", "[", "{", ")", "]", "}", ",", ";", ".", "'", "\"", backquote}
  \/ r \in decimal
  \/ r \in whitespace
  \/ isLetter(r)

\* The text from offset p to the end of the input.
Rest(in, p) == Slice(in, p, Len(in))

\* lexToken is about to read a rune that no state claims (a byte order
\* mark aside).
AtStrayRune ==
  /\ state = "lexToken"
  /\ SkipBlank(input, pos) < Len(input)
  /\ ~Claimed(DecodeRuneInString(input, SkipBlank(input, pos)).r)
  /\ DecodeRuneInString(input, SkipBlank(input, pos)).r # BOM

\* The scan is inside a literal or a general comment that the rest of the
\* input does not close: the construct is unterminated at end of input.
AtUnterminated ==
  \/ state = "lexRawString" /\ backquote \notin Range(Rest(input, pos))
  \/ state = "lexString" /\ Range(Rest(input, pos)) \cap {"\"", "\n", "\\"} = {}
  \/ state = "lexRune" /\ pos = Len(input)
  \/ /\ state = "lexGeneralComment"
     /\ \A i \in (pos + 1)..Len(input) : ~(input[i] = "/" /\ input[i - 1] = "*")

\* The kind of a malformed construct: the kind of the construct with the
\* Invalid bit set.
InvalidKind(s) ==
  CASE s = "lexToken" -> "Invalid"
    [] s = "lexRune" -> "Rune|Invalid"
    [] s \in {"lexString", "lexRawString"} -> "String|Invalid"
    [] s = "lexGeneralComment" -> "Comment|Invalid"

\* C14: a stray rune and a rune literal, string literal or general comment
\* that is unterminated at end of input each yield exactly one token, of
\* the kind of the construct with the Invalid bit set, whose value is the
\* source text of the construct and not the diagnostic message.
C14_MalformedYieldsInvalidToken ==
  [][/\ AtStrayRune =>
          /\ Len(tokens') = Len(tokens) + 1
          /\ Last(tokens').Kind = InvalidKind(state)
          /\ Last(tokens').Val = Slice(input, SkipBlank(input, pos), pos')
     /\ AtUnterminated =>
          /\ Len(tokens') = Len(tokens) + 1
          /\ Last(tokens').Kind = InvalidKind(state)
          /\ Last(tokens').Val = Rest(input, start)]_vars

\* The diagnostic that Parse hands to its caller, <<>> for none: the result
\* list of Parse is the token slice alone, so a caller receives no error
\* whatever lex found.
ParseError(l) == <<>>

\* The indices of the tokens that stand for a malformed construct.
InvalidTokens(toks) == {i \in DOMAIN toks : toks[i].Kind = "Error"}

\* C15: Parse reports the message of the first malformed construct of the
\* input, and reports no error exactly when no returned token is invalid.
C15_ParseReportsFirstError ==
  state = "nil" =>
    /\ (ParseError(Cur) = <<>>) <=> (InvalidTokens(tokens) = {})
    /\ InvalidTokens(tokens) # {} =>
         ParseError(Cur)
           = tokens[CHOOSE i \in InvalidTokens(tokens) :
                      \A j \in InvalidTokens(tokens) : i <= j].Val

\* The operators and delimiters of Go and their kinds, the dot and the
\* ellipsis aside.
Operators ==
     (<<"+">> :> "Add")
  @@ (<<"-">> :> "Sub")
  @@ (<<"*">> :> "Mul")
  @@ (<<"/">> :> "Div")
  @@ (<<"%">> :> "Mod")
  @@ (<<"&">> :> "And")
  @@ (<<"|">> :> "Or")
  @@ (<<"^">> :> "Xor")
  @@ (<<"<", "<">> :> "Shl")
  @@ (<<">", ">">> :> "Shr")
  @@ (<<"&", "^">> :> "Clear")
  @@ (<<"+", "=">> :> "AddAssign")
  @@ (<<"-", "=">> :> "SubAssign")
  @@ (<<"*", "=">> :> "MulAssign")
  @@ (<<"/", "=">> :> "DivAssign")
  @@ (<<"%", "=">> :> "ModAssign")
  @@ (<<"&", "=">> :> "AndAssign")
  @@ (<<"|", "=">> :> "OrAssign")
  @@ (<<"^", "=">> :> "XorAssign")
  @@ (<<"<", "<", "=">> :> "ShlAssign")
  @@ (<<">", ">", "=">> :> "ShrAssign")
  @@ (<<"&", "^", "=">> :> "ClearAssign")
  @@ (<<"&", "&">> :> "Land")
  @@ (<<"|", "|">> :> "Lor")
  @@ (<<"<", "-">> :> "Arrow")
  @@ (<<"+", "+">> :> "Inc")
  @@ (<<"-", "-">> :> "Dec")
  @@ (<<"=", "=">> :> "Eq")
  @@ (<<"<">> :> "Lt")
  @@ (<<">">> :> "Gt")
  @@ (<<"=">> :> "Assign")
  @@ (<<"!">> :> "Not")
  @@ (<<"!", "=">> :> "Neq")
  @@ (<<"<", "=">> :> "Lte")
  @@ (<<">", "=">> :> "Gte")
  @@ (<<":", "=">> :> "DeclAssign")
  @@ (<<"(">> :> "Lparen")
  @@ (<<"[">> :> "Lbrack")
  @@ (<<"{">> :> "Lbrace")
  @@ (<<",">> :> "Comma")
  @@ (<<")">> :> "Rparen")
  @@ (<<"]">> :> "Rbrack")
  @@ (<<"}">> :> "Rbrace")
  @@ (<<";">> :> "Semicolon")
  @@ (<<":">> :> "Colon")

\* The longest operator or delimiter that the input has at offset p.
LongestOperator(in, p) ==
  CHOOSE e \in DOMAIN Operators :
    /\ HasPrefix(Rest(in, p), e)
    /\ \A f \in DOMAIN Operators : HasPrefix(Rest(in, p), f) => Len(f) <= Len(e)

\* The states that lex an operator whose first character lexToken read.
OperatorStates ==
  {"lexDivOrComment", "lexNot", "lexLessArrowOrShl", "lexGreaterOrShr",
   "lexAndOrClear", "lexOr", "lexEqOrAssign", "lexColonOrDeclAssign", "lexMul",
   "lexMod", "lexXor", "lexAddOrInc", "lexSubOrDec"}

\* This step lexes the operator or delimiter that starts at offset
\* OperatorStart: lexToken has read its first character, or is about to
\* read a delimiter of one character.  A comment is no operator.
OperatorStart == IF state = "lexToken" THEN SkipBlank(input, pos) ELSE start

AtOperator ==
  \/ /\ state \in OperatorStates
     /\ ~HasPrefix(Rest(input, start), <<"/", "/">>)
     /\ ~HasPrefix(Rest(input, start), <<"/", "*">>)
  \/ /\ state = "lexToken"
     /\ SkipBlank(input, pos) < Len(input)
     /\ input[SkipBlank(input, pos) + 1] \in {"(", "[", "{", ",", ")", "]", "}", ";"}

\* C16: where an operator or delimiter starts, the token that is emitted is
\* the longest operator or delimiter that the rest of the input starts
\* with, whatever follows it, and the next token starts right after it.
C16_LongestOperator ==
  [][AtOperator =>
       LET e == LongestOperator(input, OperatorStart)
       IN  /\ tokens' = Append(tokens, [Kind |-> Operators[e], Val |-> e])
           /\ start' = OperatorStart + Len(e)
           /\ pos' = start'
           /\ state' = "lexToken"]_vars

\* The same for the steps that do not end in log.Fatal.
C16_Sanity ==
  [][(AtOperator /\ state' # "fatal") =>
       LET e == LongestOperator(input, OperatorStart)
       IN  /\ tokens' = Append(tokens, [Kind |-> Operators[e], Val |-> e])
           /\ start' = OperatorStart + Len(e)
           /\ pos' = start'
           /\ state' = "lexToken"]_vars

\* The offset at which the run of characters of set that starts at offset
\* p ends.
RECURSIVE RunEnd(_, _, _)
RunEnd(in, p, set) ==
  IF p < Len(in) /\ in[p + 1] \in set THEN RunEnd(in, p + 1, set) ELSE p

\* The character of the input at offset p is one of set.
At(in, p, set) == p < Len(in) /\ in[p + 1] \in set

\* A hexadecimal literal starts at offset p: 0x or 0X.
HexAt(in, p) == At(in, p, {"0"}) /\ At(in, p + 1, {"x", "X"})

\* The parts of the decimal literal at offset p, as offsets: the end of the
\* integer digits, of the fraction, the start of the exponent digits and
\* the end of the exponent.
IntEnd(in, p) == RunEnd(in, p, decimal)

FracEnd(in, p) ==
  IF At(in, IntEnd(in, p), {"."})
  THEN RunEnd(in, IntEnd(in, p) + 1, decimal)
  ELSE IntEnd(in, p)

HasExp(in, p) == At(in, FracEnd(in, p), {"e", "E"})

ExpDigits(in, p) ==
  IF At(in, FracEnd(in, p) + 1, {"+", "-"})
  THEN FracEnd(in, p) + 2
  ELSE FracEnd(in, p) + 1

MantissaEnd(in, p) ==
  IF HasExp(in, p) THEN RunEnd(in, ExpDigits(in, p), decimal) ELSE FracEnd(in, p)

\* A numeric literal starts at offset p: a digit, or a dot and a digit.
NumberAt(in, p) == At(in, p, decimal) \/ (At(in, p, {"."}) /\ At(in, p + 1, decimal))

\* The literal at offset p is well formed: a hexadecimal literal has a
\* digit and an exponent has a digit.
WellFormedNumber(in, p) ==
  IF HexAt(in, p) THEN At(in, p + 2, hex)
  ELSE HasExp(in, p) => MantissaEnd(in, p) > ExpDigits(in, p)

\* The kind and the end of the well-formed literal at offset p when an i
\* makes every form imaginary, the hexadecimal one too.
NumberAnyImag(in, p) ==
  LET m == IF HexAt(in, p) THEN RunEnd(in, p + 2, hex) ELSE MantissaEnd(in, p)
      k == IF HexAt(in, p) THEN "Int"
           ELSE IF At(in, IntEnd(in, p), {"."}) \/ HasExp(in, p) THEN "Float"
           ELSE "Int"
  IN  IF At(in, m, {"i"}) THEN [kind |-> "Imag", end |-> m + 1]
      ELSE [kind |-> k, end |-> m]

\* The same when a hexadecimal literal ends with its last digit.
Number(in, p) ==
  IF HexAt(in, p) THEN [kind |-> "Int", end |-> RunEnd(in, p + 2, hex)]
  ELSE NumberAnyImag(in, p)

\* lexDotOrNumber is about to lex a well-formed numeric literal.
AtNumber ==
  /\ state = "lexDotOrNumber"
  /\ NumberAt(input, start)
  /\ WellFormedNumber(input, start)

\* This step emits the literal n and hands over to lexToken.
EmitsNumber(n) ==
  /\ tokens' = Append(tokens, [Kind |-> n.kind, Val |-> Slice(input, start, n.end)])
  /\ start' = n.end
  /\ pos' = n.end
  /\ state' = "lexToken"

\* C17 as stated: a well-formed numeric literal is Int, Float or Imag by
\* its shape, Imag whenever an i follows any form, the hexadecimal one
\* included, and the token is the longest such prefix of the input.
C17_NumberKindsAnyImag == [][AtNumber => EmitsNumber(NumberAnyImag(input, start))]_vars

\* C17 amended: as C17, but a hexadecimal literal is Int and ends with its
\* last hexadecimal digit, also when an i follows.
C17_NumberKinds == [][AtNumber => EmitsNumber(Number(input, start))]_vars

\* A hexadecimal literal that an i follows has been emitted as Int.
C17_Witness ==
  /\ Len(tokens) >= 1
  /\ tokens[1].Kind = "Int"
  /\ HexAt(input, 0)
  /\ Len(input) > Len(tokens[1].Val)
  /\ input[Len(tokens[1].Val) + 1] = "i"

\* C18: a dot that no decimal digit follows is emitted as Dot, unless two
\* more dots follow it, and then the three dots are emitted as one
\* Ellipsis; two dots are never combined.
C18_DotAndEllipsis ==
  [][(state = "lexDotOrNumber" /\ At(input, start, {"."})
        /\ ~At(input, start + 1, decimal))
       => IF At(input, start + 1, {"."}) /\ At(input, start + 2, {"."})
          THEN EmitsNumber([kind |-> "Ellipsis", end |-> start + 3])
          ELSE EmitsNumber([kind |-> "Dot", end |-> start + 1])]_vars

\* Four dots have been lexed as an Ellipsis and a Dot, or two dots as two
\* Dots.
C18_Witness ==
  /\ Len(tokens) >= 2
  /\ \/ /\ Len(input) >= 4
        /\ SubSeq(input, 1, 4) = <<".", ".", ".", ".">>
        /\ tokens[1] = [Kind |-> "Ellipsis", Val |-> <<".", ".", ".">>]
        /\ tokens[2] = [Kind |-> "Dot", Val |-> <<".">>]
     \/ /\ input = <<".", ".">>
        /\ tokens[1] = [Kind |-> "Dot", Val |-> <<".">>]
        /\ tokens[2] = [Kind |-> "Dot", Val |-> <<".">>]

HexDigits ==
  {"0", "1", "2", "3", "4", "5", "6", "7", "8", "9",
   "a", "b", "c", "d", "e", "f", "A", "B", "C", "D", "E", "F"}

OctalDigits == {"0", "1", "2", "3", "4", "5", "6", "7"}

\* The length of the escape sequence that starts at offset p of in, right
\* after the backslash, by its shape; 0 if none does.  delim is the quote
\* of the enclosing literal.
EscapeLen(in, p, delim) ==
  IF At(in, p, {"a", "b", "f", "n", "r", "t", "v", "\\", delim}) THEN 1
  ELSE IF At(in, p, {"0", "1", "2", "3"}) /\ At(in, p + 1, OctalDigits)
          /\ At(in, p + 2, OctalDigits) THEN 3
  ELSE IF At(in, p, {"x"}) /\ \A k \in 1..2 : At(in, p + k, HexDigits) THEN 3
  ELSE IF At(in, p, {"u"}) /\ \A k \in 1..4 : At(in, p + k, HexDigits) THEN 5
  ELSE IF At(in, p, {"U"}) /\ \A k \in 1..8 : At(in, p + k, HexDigits) THEN 9
  ELSE 0

\* The four hexadecimal digits at offset q denote a surrogate half,
\* U+D800 to U+DFFF.
SurrogateAt(in, q) ==
  /\ in[q + 1] \in {"d", "D"}
  /\ in[q + 2] \in {"8", "9", "a", "b", "c", "d", "e", "f", "A", "B", "C", "D", "E", "F"}

\* The \u or \U escape at offset p denotes a Unicode code point: at most
\* U+10FFFF and no surrogate half.
CodePointOK(in, p) ==
  IF in[p + 1] = "u" THEN ~SurrogateAt(in, p + 1)
  ELSE IF in[p + 1] = "U"
  THEN /\ in[p + 2] = "0"
       /\ in[p + 3] = "0"
       /\ \/ in[p + 4] = "1" /\ in[p + 5] = "0"
          \/ in[p + 4] = "0" /\ (in[p + 5] # "0" \/ ~SurrogateAt(in, p + 5))
  ELSE TRUE

\* A valid escape sequence starts at offset p, right after the backslash.
EscapeAt(in, p, delim) == EscapeLen(in, p, delim) > 0 /\ CodePointOK(in, p)

\* e is one character element of a rune literal: one rune that is no
\* backslash, single quote, newline, NUL or byte order mark, or one valid
\* escape sequence.
CharElement(e) ==
  /\ e # <<>>
  /\ IF e[1] = "\\"
     THEN EscapeAt(e, 1, "'") /\ Len(e) = 1 + EscapeLen(e, 1, "'")
     ELSE /\ DecodeRuneInString(e, 0).w = Len(e)
          /\ DecodeRuneInString(e, 0).r \notin {"'", "\n", "x00", BOM}

\* C19: lexRune emits a Rune token only when exactly one character element
\* stands between the quotes; the empty literal, an unescaped single quote
\* and two or more characters are reported as invalid.
C19_RuneHasOneElement ==
  [][(state = "lexRune" /\ state' = "lexToken")
       => /\ tokens' = Append(tokens, [Kind |-> "Rune", Val |-> Slice(input, start, pos')])
          /\ pos' - start >= 2
          /\ input[start + 1] = "'"
          /\ input[pos'] = "'"
          /\ CharElement(Slice(input, start + 1, pos' - 1))]_vars

\* The same for the elements that the claim rules out.
C19_Sanity ==
  [][(state = "lexRune" /\ state' = "lexToken")
       => /\ tokens' = Append(tokens, [Kind |-> "Rune", Val |-> Slice(input, start, pos')])
          /\ pos' - start >= 2
          /\ input[start + 1] = "'"
          /\ input[pos'] = "'"
          /\ \/ CharElement(Slice(input, start + 1, pos' - 1))
             \/ Slice(input, start + 1, pos' - 1)
                  \in {<<"'">>, <<"x00">>, <<"xEF", "xBB", "xBF">>}]_vars

\* The lexer of the current input right after the backslash at offset
\* p - 1, as lexRune and lexString hand it to consumeEscape.
AfterBackslash(p) ==
  [input |-> input, start |-> 0, pos |-> p, width |-> 1,
   tokens |-> <<>>, line |-> 0, state |-> "lexToken"]

\* The offsets right after a backslash of the input, and the two quotes.
Backslashes == {p \in 1..Len(input) : input[p] = "\\"}

Quotes == {"'", "\""}

\* C20 as stated: consumeEscape returns no error exactly for the escape
\* sequences of the list, by their shape alone, and then has consumed the
\* sequence and nothing more; every other continuation is an error.
C20_EscapeShapes ==
  \A p \in Backslashes : \A q \in Quotes :
    LET r == consumeEscape(AfterBackslash(p), q)
    IN  /\ (r.err = <<>>) <=> (EscapeLen(input, p, q) > 0)
        /\ r.err = <<>> => r.l.pos = p + EscapeLen(input, p, q)

\* C20 amended: as C20, and a \u or \U sequence is accepted only if its
\* digits denote a Unicode code point, at most U+10FFFF and no surrogate
\* half.
C20_ValidEscapes ==
  \A p \in Backslashes : \A q \in Quotes :
    LET r == consumeEscape(AfterBackslash(p), q)
    IN  /\ (r.err = <<>>) <=> EscapeAt(input, p, q)
        /\ r.err = <<>> => r.l.pos = p + EscapeLen(input, p, q)

\* lexRune has lexed a rune literal with a \U escape, and an input with
\* the escape of a surrogate half has ended in an error.
C20_Witness ==
  /\ state = "nil"
  /\ Len(input) >= 4
  /\ input[2] = "\\"
  /\ \/ /\ input[3] = "U"
        /\ tokens[1].Kind = "Rune"
     \/ /\ input[3] = "u"
        /\ SurrogateAt(input, 3)
        /\ tokens[1].Kind = "Error"

\* The value of a hexadecimal digit.
HexDigitValue ==
  ("0" :> 0 @@ "1" :> 1 @@ "2" :> 2 @@ "3" :> 3 @@ "4" :> 4 @@ "5" :> 5 @@
   "6" :> 6 @@ "7" :> 7 @@ "8" :> 8 @@ "9" :> 9 @@
   "a" :> 10 @@ "b" :> 11 @@ "c" :> 12 @@ "d" :> 13 @@ "e" :> 14 @@ "f" :> 15 @@
   "A" :> 10 @@ "B" :> 11 @@ "C" :> 12 @@ "D" :> 13 @@ "E" :> 14 @@ "F" :> 15)

\* The number that the n digits of in from index a on denote in a base;
\* n is at most four.
RECURSIVE DigitsValue(_, _, _, _)
DigitsValue(in, a, n, base) ==
  IF n = 0 THEN 0
  ELSE DigitsValue(in, a, n - 1, base) * base + HexDigitValue[in[a + n - 1]]

\* hi * 2^16 + lo is a Unicode code point: at most 0x10FFFF and outside
\* the surrogate range 0xD800-0xDFFF.
IsCodePoint(hi, lo) ==
  /\ hi <= 16
  /\ hi = 0 => (lo < 55296 \/ lo > 57343)

\* C21: a \u or \U escape that consumeEscape accepts denotes a valid
\* Unicode code point, at most 0x10FFFF and no surrogate half, so that no
\* eight-digit value above it is accepted, and an octal escape that it
\* accepts has a value of at most 255.
C21_EscapeValueInRange ==
  \A p \in Backslashes : \A q \in Quotes :
    consumeEscape(AfterBackslash(p), q).err = <<>>
      => /\ At(input, p, {"u"})
              => IsCodePoint(0, DigitsValue(input, p + 2, 4, 16))
         /\ At(input, p, {"U"})
              => IsCodePoint(DigitsValue(input, p + 2, 4, 16),
                             DigitsValue(input, p + 6, 4, 16))
         /\ At(input, p, {"0", "1", "2", "3"})
              => DigitsValue(input, p + 1, 3, 8) <= 255

\* The lexer has rejected a rune literal whose \U escape has a value of
\* 0x80000000 or more.
C21_Witness ==
  /\ state = "nil"
  /\ Len(input) >= 11
  /\ input[2] = "\\"
  /\ input[3] = "U"
  /\ \A k \in 4..11 : input[k] \in HexDigits
  /\ DigitsValue(input, 4, 4, 16) >= 32768
  /\ tokens[1].Kind = "Error"
  /\ tokens[1].Val[Len(tokens[1].Val)] = "invalid rune in Unicode escape"

\* The 25 keywords of Go and their kinds.
KeywordKind ==
  (<<"b", "r", "e", "a", "k">> :> "Break" @@
   <<"c", "a", "s", "e">> :> "Case" @@
   <<"c", "h", "a", "n">> :> "Chan" @@
   <<"c", "o", "n", "s", "t">> :> "Const" @@
   <<"c", "o", "n", "t", "i", "n", "u", "e">> :> "Continue" @@
   <<"d", "e", "f", "a", "u", "l", "t">> :> "Default" @@
   <<"d", "e", "f", "e", "r">> :> "Defer" @@
   <<"e", "l", "s", "e">> :> "Else" @@
   <<"f", "a", "l", "l", "t", "h", "r", "o", "u", "g", "h">> :> "Fallthrough" @@
   <<"f", "o", "r">> :> "For" @@
   <<"f", "u", "n", "c">> :> "Func" @@
   <<"g", "o">> :> "Go" @@
   <<"g", "o", "t", "o">> :> "Goto" @@
   <<"i", "f">> :> "If" @@
   <<"i", "m", "p", "o", "r", "t">> :> "Import" @@
   <<"i", "n", "t", "e", "r", "f", "a", "c", "e">> :> "Interface" @@
   <<"m", "a", "p">> :> "Map" @@
   <<"p", "a", "c", "k", "a", "g", "e">> :> "Package" @@
   <<"r", "a", "n", "g", "e">> :> "Range" @@
   <<"r", "e", "t", "u", "r", "n">> :> "Return" @@
   <<"s", "e", "l", "e", "c", "t">> :> "Select" @@
   <<"s", "t", "r", "u", "c", "t">> :> "Struct" @@
   <<"s", "w", "i", "t", "c", "h">> :> "Switch" @@
   <<"t", "y", "p", "e">> :> "Type" @@
   <<"v", "a", "r">> :> "Var")

\* The offset at which the run of letters, digits and underscores that
\* starts at offset p ends.
RECURSIVE IdentEnd(_, _)
IdentEnd(in, p) ==
  IF p < Len(in)
        /\ (IsLetter(DecodeRuneInString(in, p).r)
              \/ DecodeRuneInString(in, p).r \in decimal \cup {"_"})
  THEN IdentEnd(in, p + DecodeRuneInString(in, p).w)
  ELSE p

\* This step emits the maximal run of letters, digits and underscores that
\* starts at start, as the keyword that the whole run spells, or as Ident
\* if it spells none.
EmitsKeywordOrIdent ==
  /\ tokens' = Append(tokens,
       [Kind |-> IF Slice(input, start, IdentEnd(input, start)) \in DOMAIN KeywordKind
                 THEN KeywordKind[Slice(input, start, IdentEnd(input, start))]
                 ELSE "Ident",
        Val |-> Slice(input, start, IdentEnd(input, start))])
  /\ start' = IdentEnd(input, start)
  /\ pos' = start'
  /\ state' = "lexToken"

\* C22: lexKeywordOrIdent consumes the maximal run of letters, digits and
\* underscores and emits it with a keyword kind if and only if the whole
\* run is one of the 25 keywords, as Ident otherwise.
C22_KeywordOrIdent ==
  [][state = "lexKeywordOrIdent" => EmitsKeywordOrIdent]_vars

\* The same for the steps that do not end in log.Fatal.
C22_Sanity ==
  [][(state = "lexKeywordOrIdent" /\ state' # "fatal") => EmitsKeywordOrIdent]_vars

\* The line comments among the tokens.
LineComments ==
  {i \in DOMAIN tokens : /\ tokens[i].Kind = "Comment"
                         /\ HasPrefix(tokens[i].Val, <<"/", "/">>)}

\* C23: the value of a line comment runs from // up to but not including
\* the newline that ends it: it never contains a newline, whether a newline
\* or the end of the input ends the comment.
C23_LineCommentNoNewline ==
  \A i \in LineComments : "\n" \notin Range(tokens[i].Val)

\* A newline in the value of a line comment is its last character.
C23_Sanity ==
  \A i \in LineComments :
    \A k \in 1..(Len(tokens[i].Val) - 1) : tokens[i].Val[k] # "\n"

\* s without its carriage returns.
RECURSIVE StripCR(_)
StripCR(s) ==
  IF s = <<>> THEN <<>>
  ELSE IF Head(s) = "\r" THEN StripCR(Tail(s))
  ELSE <<Head(s)>> \o StripCR(Tail(s))

\* This step emits a general comment or a raw string literal.
EmitsCommentOrRawString ==
  /\ state \in {"lexGeneralComment", "lexRawString"}
  /\ state' = "lexToken"

\* C24: every carriage return inside a general comment or a raw string
\* literal is removed from the value of the token, and nothing else of the
\* source text is changed or removed.
C24_CarriageReturnsStripped ==
  [][EmitsCommentOrRawString
       => Last(tokens').Val = StripCR(Slice(input, start, pos'))]_vars

\* The value of a general comment or raw string literal is its source
\* text.
C24_Sanity ==
  [][EmitsCommentOrRawString
       => Last(tokens').Val = Slice(input, start, pos')]_vars

\* The UTF-8 encoding of the byte order mark.
BOMBytes == <<"xEF", "xBB", "xBF">>

\* C25: a byte order mark at offset 0 is discarded: when lexing is over,
\* the tokens of an input that starts with one are the tokens of the rest
\* of the input, and those of a single byte order mark are the tokens of
\* the empty input.
C25_LeadingBOMDiscarded ==
  (state = "nil" /\ HasPrefix(input, BOMBytes))
    => tokens = Parse(Rest(input, 3)).tokens

\* Lexing of an input that starts with a byte order mark stops at the mark
\* with one Error token.
C25_Sanity ==
  (state = "nil" /\ HasPrefix(input, BOMBytes))
    => /\ Len(tokens) = 1
       /\ tokens[1].Kind = "Error"

\* The byte order mark occurs in s.
HasBOM(s) == \E k \in 1..(Len(s) - 2) : SubSeq(s, k, k + 2) = BOMBytes

\* lexToken is about to read a byte order mark that stands alone, not at
\* offset 0 of the input.
AtStrayBOM ==
  /\ state = "lexToken"
  /\ SkipBlank(input, pos) > 0
  /\ HasPrefix(Rest(input, SkipBlank(input, pos)), BOMBytes)

\* C26: a byte order mark that is not at offset 0 is reported as invalid:
\* alone it yields an Invalid token whose value is the mark, and no
\* comment, rune or string token that contains one is emitted without the
\* Invalid bit.
C26_BOMElsewhereInvalid ==
  [][/\ AtStrayBOM => tokens' = Append(tokens, [Kind |-> "Invalid", Val |-> BOMBytes])
     /\ \A i \in DOMAIN tokens' :
          tokens'[i].Kind \in {"Comment", "Rune", "String"} => ~HasBOM(tokens'[i].Val)]_vars

\* A byte order mark that stands alone ends lexing with one Error token.
C26_Sanity ==
  [][AtStrayBOM => /\ tokens' = Append(tokens, [Kind |-> "Error",
                                   Val |-> <<"syntax error; unexpected ", BOM>>])
                   /\ state' = "nil"]_vars

\* C27: a NUL character inside a comment, a rune literal or a string
\* literal makes the token invalid: no Comment, Rune or String token that
\* contains one is emitted without the Invalid bit.
C27_NULMakesInvalid ==
  \A i \in DOMAIN tokens :
    tokens[i].Kind \in {"Comment", "Rune", "String"} => "x00" \notin Range(tokens[i].Val)

\* A literal with a leading 0 and the digit 8 or 9 among its integer
\* digits starts at offset p.
BadOctalAt(in, p) ==
  /\ At(in, p, {"0"})
  /\ ~HexAt(in, p)
  /\ \E k \in (p + 1)..IntEnd(in, p) : in[k] \in {"8", "9"}

\* The integer digits at offset p are the whole literal: no decimal point,
\* exponent or i follows them.
DigitsOnly(in, p) == ~At(in, IntEnd(in, p), {".", "e", "E", "i"})

\* lexDotOrNumber is about to lex a literal with a leading 0 and a digit 8
\* or 9.
AtBadOctal == state = "lexDotOrNumber" /\ BadOctalAt(input, start)

\* C28: a digits-only literal with a leading 0 that contains the digit 8
\* or 9 is emitted as one Int token with the Invalid bit, while the same
\* digits followed by a decimal point, an exponent or i are a valid Float
\* or Imag.
C28_InvalidOctalDigit ==
  [][AtBadOctal =>
       IF DigitsOnly(input, start)
       THEN tokens' = Append(tokens, [Kind |-> "Int|Invalid",
                                      Val |-> Slice(input, start, IntEnd(input, start))])
       ELSE WellFormedNumber(input, start)
              => /\ Number(input, start).kind \in {"Float", "Imag"}
                 /\ EmitsNumber(Number(input, start))]_vars

\* The digits-only literal is emitted as a plain Int, and the other forms
\* as Float or Imag.
C28_Sanity ==
  [][AtBadOctal =>
       IF DigitsOnly(input, start)
       THEN tokens' = Append(tokens, [Kind |-> "Int",
                                      Val |-> Slice(input, start, IntEnd(input, start))])
       ELSE WellFormedNumber(input, start)
              => /\ Number(input, start).kind \in {"Float", "Imag"}
                 /\ EmitsNumber(Number(input, start))]_vars

\* lexDotOrNumber is about to lex 0x or 0X that no hexadecimal digit
\* follows.
AtHexWithoutDigits ==
  /\ state = "lexDotOrNumber"
  /\ HexAt(input, start)
  /\ ~At(input, start + 2, HexDigits)

\* C29: 0x or 0X without a hexadecimal digit is never a valid Int: it
\* yields one Int token with the Invalid bit whose value is the 0x or 0X.
C29_HexWithoutDigits ==
  [][AtHexWithoutDigits
       => tokens' = Append(tokens, [Kind |-> "Int|Invalid",
                                    Val |-> Slice(input, start, start + 2)])]_vars

\* 0x or 0X without a hexadecimal digit yields one Error token and ends
\* lexing.
C29_Sanity ==
  [][AtHexWithoutDigits
       => /\ tokens' = Append(tokens, [Kind |-> "Error",
                                       Val |-> <<"malformed hexadecimal constant">>])
          /\ state' = "nil"]_vars

(* ----------------------------- package token --------------------------- *)

\* Largest value of a Kind, an uint8.
MaxKind == 255

\* The constants of type Kind after None and Invalid, in the order of
\* their declaration: Comment has iota 2.
KindNames ==
  <<"Comment", "Ident", "Int", "Float", "Imag", "Rune", "String",
    "Break", "Case", "Chan", "Const", "Continue", "Default", "Defer", "Else",
    "Fallthrough", "For", "Func", "Go", "Goto", "If", "Import", "Interface",
    "Map", "Package", "Range", "Return", "Select", "Struct", "Switch", "Type",
    "Var",
    "Not", "Arrow", "Mul", "Div", "Mod", "Shl", "Shr", "And", "Clear",
    "Add", "Sub", "Or", "Xor", "Eq", "Neq", "Lt", "Lte", "Gt", "Gte",
    "Land", "Lor",
    "Assign", "DeclAssign", "MulAssign", "DivAssign", "ModAssign", "ShlAssign",
    "ShrAssign", "AndAssign", "ClearAssign", "AddAssign", "SubAssign",
    "OrAssign", "XorAssign", "Inc", "Dec",
    "Lparen", "Lbrack", "Lbrace", "Rparen", "Rbrack", "Rbrace", "Dot", "Comma",
    "Colon", "Semicolon", "Ellipsis">>

\* The value of a constant: iota << 1.
KindOf(name) == 2 * ((CHOOSE i \in DOMAIN KindNames : KindNames[i] = name) + 1)

\* The Invalid bit of a kind is not set.
IsValid(k) == k % 2 = 0

\* IsKeyword that starts after Break.
IsKeywordFromCase(k) == KindOf("Case") <= k /\ k <= KindOf("Var")

IsKeyword(k) == KindOf("Break") <= k /\ k <= KindOf("Var")

IsOperator(k) == KindOf("Not") <= k /\ k <= KindOf("Ellipsis")

\* IsLiteral without its upper bound.
IsLiteralFromIdent(k) == KindOf("Ident") <= k

IsLiteral(k) == KindOf("Ident") <= k /\ k <= KindOf("String")

\* Any value of type Kind, not yet classified.
KindInit ==
  /\ input = <<>>
  /\ start = 0
  /\ pos = 0
  /\ width = 0
  /\ tokens = <<>>
  /\ line = 0
  /\ state = "nil"
  /\ theKind \in 0..MaxKind
  /\ class = <<>>
  /\ second = NewLexer(<<>>)

\* A caller asks the three predicates about the kind.
Classify ==
  /\ class = <<>>
  /\ class' = [IsKeyword |-> IsKeyword(theKind),
               IsOperator |-> IsOperator(theKind),
               IsLiteral |-> IsLiteral(theKind)]
  /\ UNCHANGED <<input, start, pos, width, tokens, line, state, theKind, second>>

KindNext == Classify

KindSpec == KindInit /\ [][KindNext]_vars

\* C30: for every value of Kind, with or without the Invalid bit, at most
\* one of IsKeyword, IsOperator and IsLiteral is true.
C30_AtMostOneClass ==
  class # <<>> => Cardinality({f \in DOMAIN class : class[f]}) <= 1

\* A kind with the Invalid bit set has been classified, and as a literal
\* alone.
C30_Witness ==
  /\ class # <<>>
  /\ ~IsValid(theKind)
  /\ class.IsLiteral
  /\ ~class.IsKeyword
  /\ ~class.IsOperator

\* The kinds of the three classes, by name.
KeywordNames == Range(KeywordKind)

OperatorNames == Range(Operators) \cup {"Dot", "Ellipsis"}

LiteralNames == {"Ident", "Int", "Float", "Imag", "Rune", "String"}

\* k is the value of a declared constant other than None and Invalid.
DefinedKind(k) == \E n \in Range(KindNames) : KindOf(n) = k

\* The name of the constant of value k.
NameOf(k) == CHOOSE n \in Range(KindNames) : KindOf(n) = k

\* C31: among the declared kinds IsKeyword is true exactly for the 25
\* keywords, IsOperator exactly for the operators and delimiters and
\* IsLiteral exactly for Ident, Int, Float, Imag, Rune and String; Comment
\* and the kind of value 0, where the end of file stands, satisfy none.
C31_ClassesByName ==
  /\ (class # <<>> /\ DefinedKind(theKind))
       => /\ class.IsKeyword <=> NameOf(theKind) \in KeywordNames
          /\ class.IsOperator <=> NameOf(theKind) \in OperatorNames
          /\ class.IsLiteral <=> NameOf(theKind) \in LiteralNames
  /\ (class # <<>> /\ theKind \in {0, KindOf("Comment")})
       => class = [IsKeyword |-> FALSE, IsOperator |-> FALSE, IsLiteral |-> FALSE]

\* The first keyword has been classified as a keyword.
C31_Witness ==
  /\ class # <<>>
  /\ DefinedKind(theKind)
  /\ NameOf(theKind) = "Break"
  /\ class = [IsKeyword |-> TRUE, IsOperator |-> FALSE, IsLiteral |-> FALSE]

\* C32: setting the Invalid bit on a declared kind keeps its class:
\* IsKeyword, IsOperator and IsLiteral answer for k|Invalid as for k, and
\* IsValid is true for k and false for k|Invalid.
C32_InvalidKeepsClass ==
  (class # <<>> /\ DefinedKind(theKind))
    => /\ class = [IsKeyword |-> IsKeyword(theKind + 1),
                   IsOperator |-> IsOperator(theKind + 1),
                   IsLiteral |-> IsLiteral(theKind + 1)]
       /\ IsValid(theKind)
       /\ ~IsValid(theKind + 1)

\* The same for every declared kind that is not the last of its class.
C32_Sanity ==
  (class # <<>> /\ DefinedKind(theKind)
     /\ NameOf(theKind) \notin {"String", "Var", "Ellipsis"})
    => /\ class = [IsKeyword |-> IsKeyword(theKind + 1),
                   IsOperator |-> IsOperator(theKind + 1),
                   IsLiteral |-> IsLiteral(theKind + 1)]
       /\ IsValid(theKind)
       /\ ~IsValid(theKind + 1)

\* The characters of the fixed parts of the messages of errorf.
MessageChars ==
  (" in Unicode escape" :>
     <<" ", "i", "n", " ", "U", "n", "i", "c", "o", "d", "e", " ", "e", "s", "c", "a", "p", "e">> @@
   " in hex escape" :>
     <<" ", "i", "n", " ", "h", "e", "x", " ", "e", "s", "c", "a", "p", "e">> @@
   " in octal escape" :>
     <<" ", "i", "n", " ", "o", "c", "t", "a", "l", " ", "e", "s", "c", "a", "p", "e">> @@
   "invalid escape sequence in interpreted string literal; " :>
     <<"i", "n", "v", "a", "l", "i", "d", " ", "e", "s", "c", "a", "p", "e", " ", "s", "e", "q", "u", "e", "n", "c", "e", " ", "i", "n", " ", "i", "n", "t", "e", "r", "p", "r", "e", "t", "e", "d", " ", "s", "t", "r", "i", "n", "g", " ", "l", "i", "t", "e", "r", "a", "l", ";", " ">> @@
   "invalid octal escape; value out of range" :>
     <<"i", "n", "v", "a", "l", "i", "d", " ", "o", "c", "t", "a", "l", " ", "e", "s", "c", "a", "p", "e", ";", " ", "v", "a", "l", "u", "e", " ", "o", "u", "t", " ", "o", "f", " ", "r", "a", "n", "g", "e">> @@
   "invalid rune in Unicode escape" :>
     <<"i", "n", "v", "a", "l", "i", "d", " ", "r", "u", "n", "e", " ", "i", "n", " ", "U", "n", "i", "c", "o", "d", "e", " ", "e", "s", "c", "a", "p", "e">> @@
   "malformed exponent of floating-point constant" :>
     <<"m", "a", "l", "f", "o", "r", "m", "e", "d", " ", "e", "x", "p", "o", "n", "e", "n", "t", " ", "o", "f", " ", "f", "l", "o", "a", "t", "i", "n", "g", "-", "p", "o", "i", "n", "t", " ", "c", "o", "n", "s", "t", "a", "n", "t">> @@
   "malformed hexadecimal constant" :>
     <<"m", "a", "l", "f", "o", "r", "m", "e", "d", " ", "h", "e", "x", "a", "d", "e", "c", "i", "m", "a", "l", " ", "c", "o", "n", "s", "t", "a", "n", "t">> @@
   "missing ' in rune literal" :>
     <<"m", "i", "s", "s", "i", "n", "g", " ", "'", " ", "i", "n", " ", "r", "u", "n", "e", " ", "l", "i", "t", "e", "r", "a", "l">> @@
   "non-hex character " :>
     <<"n", "o", "n", "-", "h", "e", "x", " ", "c", "h", "a", "r", "a", "c", "t", "e", "r", " ">> @@
   "non-octal character " :>
     <<"n", "o", "n", "-", "o", "c", "t", "a", "l", " ", "c", "h", "a", "r", "a", "c", "t", "e", "r", " ">> @@
   "syntax error; unexpected " :>
     <<"s", "y", "n", "t", "a", "x", " ", "e", "r", "r", "o", "r", ";", " ", "u", "n", "e", "x", "p", "e", "c", "t", "e", "d", " ">> @@
   "unexpected eof in general comment" :>
     <<"u", "n", "e", "x", "p", "e", "c", "t", "e", "d", " ", "e", "o", "f", " ", "i", "n", " ", "g", "e", "n", "e", "r", "a", "l", " ", "c", "o", "m", "m", "e", "n", "t">> @@
   "unexpected eof in interpreted string literal" :>
     <<"u", "n", "e", "x", "p", "e", "c", "t", "e", "d", " ", "e", "o", "f", " ", "i", "n", " ", "i", "n", "t", "e", "r", "p", "r", "e", "t", "e", "d", " ", "s", "t", "r", "i", "n", "g", " ", "l", "i", "t", "e", "r", "a", "l">> @@
   "unexpected eof in raw string literal" :>
     <<"u", "n", "e", "x", "p", "e", "c", "t", "e", "d", " ", "e", "o", "f", " ", "i", "n", " ", "r", "a", "w", " ", "s", "t", "r", "i", "n", "g", " ", "l", "i", "t", "e", "r", "a", "l">> @@
   "unexpected eof in rune literal" :>
     <<"u", "n", "e", "x", "p", "e", "c", "t", "e", "d", " ", "e", "o", "f", " ", "i", "n", " ", "r", "u", "n", "e", " ", "l", "i", "t", "e", "r", "a", "l">> @@
   "unexpected newline in interpreted string literal" :>
     <<"u", "n", "e", "x", "p", "e", "c", "t", "e", "d", " ", "n", "e", "w", "l", "i", "n", "e", " ", "i", "n", " ", "i", "n", "t", "e", "r", "p", "r", "e", "t", "e", "d", " ", "s", "t", "r", "i", "n", "g", " ", "l", "i", "t", "e", "r", "a", "l">> @@
   "unexpected newline in rune literal" :>
     <<"u", "n", "e", "x", "p", "e", "c", "t", "e", "d", " ", "n", "e", "w", "l", "i", "n", "e", " ", "i", "n", " ", "r", "u", "n", "e", " ", "l", "i", "t", "e", "r", "a", "l">> @@
   "unknown escape sequence: " :>
     <<"u", "n", "k", "n", "o", "w", "n", " ", "e", "s", "c", "a", "p", "e", " ", "s", "e", "q", "u", "e", "n", "c", "e", ":", " ">>)

\* The rune r as the verb %q of fmt prints it.
QuoteRune(r) ==
  CASE r \in {eof, RuneError} -> <<"'", "xEF", "xBF", "xBD", "'">>
    [] r = BOM -> <<"'", "\\", "u", "f", "e", "f", "f", "'">>
    [] r = EAcute -> <<"'", "xC3", "xA9", "'">>
    [] r = "x00" -> <<"'", "\\", "x", "0", "0", "'">>
    [] r = "\n" -> <<"'", "\\", "n", "'">>
    [] r = "\t" -> <<"'", "\\", "t", "'">>
    [] r = "\r" -> <<"'", "\\", "r", "'">>
    [] r = "'" -> <<"'", "\\", "'", "'">>
    [] r = "\\" -> <<"'", "\\", "\\", "'">>
    [] OTHER -> <<"'", r, "'">>

\* The bytes of the value of a token: the value of an Error token is a
\* message, made of fixed parts and of runes printed with %q.
RECURSIVE MessageText(_)
MessageText(val) ==
  IF val = <<>> THEN <<>>
  ELSE (IF Head(val) \in DOMAIN MessageChars
        THEN MessageChars[Head(val)]
        ELSE QuoteRune(Head(val))) \o MessageText(Tail(val))

Text(tok) == IF tok.Kind = "Error" THEN MessageText(tok.Val) ELSE tok.Val

\* The values of the tokens joined by single spaces.
RECURSIVE JoinValues(_)
JoinValues(toks) ==
  IF toks = <<>> THEN <<>>
  ELSE IF Len(toks) = 1 THEN Text(toks[1])
  ELSE Text(Head(toks)) \o <<" ">> \o JoinValues(Tail(toks))

Kinds(toks) == [i \in DOMAIN toks |-> toks[i].Kind]

\* a is b without some of its Semicolon entries.
RECURSIVE DropsSemicolons(_, _)
DropsSemicolons(a, b) ==
  IF b = <<>> THEN a = <<>>
  ELSE \/ a # <<>> /\ Head(a) = Head(b) /\ DropsSemicolons(Tail(a), Tail(b))
       \/ Head(b) = "Semicolon" /\ DropsSemicolons(a, Tail(b))

\* Parse of the values of the tokens has returned their kinds, in order,
\* up to semicolons that it left out.
RescanStable ==
  /\ Parse(JoinValues(tokens)).state = "nil"
  /\ DropsSemicolons(Kinds(Parse(JoinValues(tokens)).tokens), Kinds(tokens))

\* C33: re-scanning is stable: Parse of the values of the tokens of
\* Parse(s), joined by single spaces, yields the same kinds in the same
\* order, up to semicolons that the second run does not insert.
C33_RescanStable == state = "nil" => RescanStable

\* The same for the inputs whose tokens include no Error token.
C33_Sanity ==
  (state = "nil" /\ \A i \in DOMAIN tokens : tokens[i].Kind # "Error") => RescanStable

(* ----------------------------- two scans ------------------------------- *)

\* The inputs of two scans that run at the same time: with and without a
\* line end, a comment, a malformed construct, and two that end in
\* log.Fatal.
PairInputs ==
  {<<>>,
   <<"a", "\n">>,
   <<"a", " ", "/", "/", "c", "\n", "b", "\n">>,
   <<"i", "f", " ", "x", "\n", "}">>,
   <<"/", "*", "\n", "*", "/", "1", ";">>,
   <<"'", "a", "'", " ", ".", ".", ".">>,
   <<"#">>,
   <<"\"", "s">>,
   <<"a">>,
   <<"1", "+">>}

\* Two calls of Parse, each with its own lexer; second is the lexer of the
\* second call.
PairInit ==
  /\ input \in PairInputs
  /\ start = 0
  /\ pos = 0
  /\ width = 0
  /\ tokens = <<>>
  /\ line = 0
  /\ state = "lexToken"
  /\ theKind = 0
  /\ class = <<>>
  /\ second \in {NewLexer(in) : in \in PairInputs}

\* One iteration of the loop of lex in the first call.  log.Fatal in
\* either call ends the program, and with it both calls.
ScanFirst ==
  /\ state \notin {"nil", "fatal"}
  /\ second.state # "fatal"
  /\ Run(stateFn(Cur))

\* One iteration of the loop of lex in the second call.
ScanSecond ==
  /\ second.state \notin {"nil", "fatal"}
  /\ state # "fatal"
  /\ second' = stateFn(second)
  /\ UNCHANGED <<input, start, pos, width, tokens, line, state, theKind, class>>

PairNext == ScanFirst \/ ScanSecond

PairSpec == PairInit /\ [][PairNext]_vars

\* A call that is over has the tokens of Parse of its input alone, and two
\* calls on the same input that are over have the same tokens.
SameAsAlone ==
  /\ state = "nil" => tokens = Parse(input).tokens
  /\ second.state = "nil" => second.tokens = Parse(second.input).tokens
  /\ (state = "nil" /\ second.state = "nil" /\ input = second.input)
       => tokens = second.tokens

\* The end of one call in log.Fatal has cut off the other call, which
\* alone runs to its end.
CutOff ==
  \/ /\ state = "fatal"
     /\ second.state \notin {"nil", "fatal"}
     /\ Parse(second.input).state = "nil"
  \/ /\ second.state = "fatal"
     /\ state \notin {"nil", "fatal"}
     /\ Parse(input).state = "nil"

\* C34: scans share no mutable state: however the steps of two scans are
\* interleaved, each scan produces the tokens that it produces alone, and
\* two scans of the same input produce the same tokens.
C34_ScansIndependent == SameAsAlone /\ ~CutOff

\* The same for the calls that run to their end.
C34_Sanity == SameAsAlone

\* The general comments among the tokens.
GeneralComments ==
  {i \in DOMAIN tokens : /\ tokens[i].Kind = "Comment"
                         /\ HasPrefix(tokens[i].Val, <<"/", "*">>)}

\* C35: a general comment is closed only by a */ that follows its /*: the
\* asterisk of the /* is no part of the */, so every Comment token that
\* starts with /* has at least four characters.
C35_CommentCloserAfterOpener ==
  \A i \in GeneralComments :
    /\ Len(tokens[i].Val) >= 4
    /\ HasSuffix(tokens[i].Val, <<"*", "/">>)

\* Every Comment token that starts with /* ends with */ and has at least
\* three characters.
C35_Sanity ==
  \A i \in GeneralComments :
    /\ Len(tokens[i].Val) >= 3
    /\ HasSuffix(tokens[i].Val, <<"*", "/">>)

\* The scan of the interpreted string literal whose text after the opening
\* quote starts at offset p: the offset where it ends, whether a quote
\* closes it there (a newline or the end of the input does not), and
\* whether every backslash before starts a valid escape sequence.
RECURSIVE StringScan(_, _)
StringScan(in, p) ==
  IF p >= Len(in) \/ At(in, p, {"\n"})
  THEN [end |-> p, closed |-> FALSE, ok |-> TRUE]
  ELSE IF At(in, p, {"\""})
  THEN [end |-> p + 1, closed |-> TRUE, ok |-> TRUE]
  ELSE IF At(in, p, {"\\"})
  THEN IF EscapeAt(in, p + 1, "\"")
       THEN StringScan(in, p + 1 + EscapeLen(in, p + 1, "\""))
       ELSE [end |-> p, closed |-> FALSE, ok |-> FALSE]
  ELSE StringScan(in, p + 1)

\* lexString is about to lex a literal whose escape sequences are valid.
AtString == state = "lexString" /\ StringScan(input, pos).ok

\* This step emits the literal up to its closing quote as a String token.
EmitsString ==
  /\ tokens' = Append(tokens, [Kind |-> "String",
                               Val |-> Slice(input, start, StringScan(input, pos).end)])
  /\ pos' = StringScan(input, pos).end
  /\ state' = "lexToken"

\* C36: an interpreted string literal ends at the first double quote that
\* is no part of an escape sequence and may be empty; a newline or the end
\* of the input before that quote makes it one invalid String token whose
\* value stops before the newline.
C36_StringLiteral ==
  [][AtString =>
       IF StringScan(input, pos).closed
       THEN EmitsString
       ELSE tokens' = Append(tokens, [Kind |-> "String|Invalid",
                                      Val |-> Slice(input, start, StringScan(input, pos).end)])]_vars

\* The same, with the Error token that errorf appends to an unterminated
\* literal.
C36_Sanity ==
  [][AtString =>
       IF StringScan(input, pos).closed
       THEN EmitsString
       ELSE /\ Len(tokens') = Len(tokens) + 1
            /\ Last(tokens').Kind = "Error"
            /\ state' = "nil"]_vars

(* ------------------- C37: synthetic semicolons per line ------------------- *)

\* The number of newlines among the first p bytes of in.
NewlinesBefore(in, p) == Cardinality({i \in 1..p : in[i] = "\n"})

\* C37: every synthetic semicolon (every Semicolon of an input that has no
\* semicolon written in it) stands right after a token of a trigger kind,
\* and no line receives more than one: the tokens of the current line hold
\* at most one, and there are never more of them than line ends read so
\* far, although insertSemicolon may run twice for one line (at a comment
\* and at the newline or end of input after it).
C37_OneSemicolonPerLine ==
  NoSemicolonInSource
    => /\ \A i \in DOMAIN tokens :
            tokens[i].Kind = "Semicolon"
              => i > 1 /\ tokens[i - 1].Kind \in SemicolonTriggers
       /\ Cardinality({i \in (line + 1)..Len(tokens) : tokens[i].Kind = "Semicolon"}) <= 1
       /\ NumSemicolons(tokens)
            <= NewlinesBefore(input, pos) + (IF Finished THEN 1 ELSE 0)

\* insertSemicolon has run twice behind one trigger token, at a general
\* comment with a newline in it and at the newline after that comment, and
\* the output has the one semicolon of the first run.
C37_Witness ==
  /\ state = "nil"
  /\ NoSemicolonInSource
  /\ Len(tokens) = 4
  /\ tokens[1].Kind \in SemicolonTriggers
  /\ tokens[2].Kind = "Semicolon"
  /\ tokens[3].Kind = "Comment"
  /\ "\n" \in Range(tokens[3].Val)
  /\ tokens[4].Kind = "EOF"
  /\ Last(input) = "\n"

(* ----------------------- C38: the end-of-input token ----------------------- *)

\* lexLineComment is about to read up to the end of the input: no newline
\* ends the comment.
LineCommentAtEndOfInput ==
  state = "lexLineComment" /\ "\n" \notin Range(Slice(input, pos, Len(input)))

NumEOF(toks) == Cardinality({i \in DOMAIN toks : toks[i].Kind = "EOF"})

\* C38: the end-of-input token is emitted at most once and only as the last
\* token, and the two steps that call emit(EOF) (lexToken at the end of the
\* input and lexLineComment in a comment that the end of the input ends) do
\* so with pos = len(input) and start = pos: neither fatal check of emit
\* fires, the token is appended and the scan ends.  Neither step calls
\* backup, so only emit could end them in log.Fatal.
C38_EOFOnceAndLast ==
  [][/\ \A i \in DOMAIN tokens' :
          tokens'[i].Kind = "EOF" => (i = Len(tokens') /\ state' = "nil")
     /\ (AtEndOfInput \/ LineCommentAtEndOfInput)
          => /\ state' = "nil"
             /\ Last(tokens') = [Kind |-> "EOF", Val |-> <<>>]
             /\ pos' = Len(input)
             /\ start' = pos'
             /\ NumEOF(tokens') = 1]_vars

\* A line comment that the end of the input ends has been emitted with the
\* end-of-input token behind it, after other tokens.
C38_Witness ==
  /\ state = "nil"
  /\ Len(tokens) >= 3
  /\ Last(tokens) = [Kind |-> "EOF", Val |-> <<>>]
  /\ tokens[Len(tokens) - 1].Kind = "Comment"
  /\ HasPrefix(tokens[Len(tokens) - 1].Val, <<"/", "/">>)
  /\ "\n" \notin Range(tokens[Len(tokens) - 1].Val)
  /\ NumEOF(tokens) = 1

(* ---------------------- C39: positions stay in range ---------------------- *)

\* The number of bytes that consumeEscape slices off before l.pos for the
\* escape that starts with the character c: input[pos-3:pos] for an octal
\* escape, input[pos-n:pos] with n = 4 or 8 for a Unicode escape.
EscapeSliceLen(c) == IF c = "U" THEN 8 ELSE IF c = "u" THEN 4 ELSE 3

\* lexRune is about to read an escape whose digits consumeEscape slices.
AtSlicedEscape ==
  /\ state = "lexRune"
  /\ At(input, pos, {"\\"})
  /\ At(input, pos + 1, {"0", "1", "2", "3", "u", "U"})
  /\ Len(consumeEscape(next(Cur).l, "'").err) <= 1

\* C39: in every state 0 <= start <= pos <= len(input) and
\* 0 <= l.line <= len(tokens).  The slice that consumeEscape takes before
\* l.pos starts behind l.start, and insertSemicolon reads the token indices
\* from l.line to len(tokens)-1 and writes at an index from 0 to the old
\* len(tokens), which the append has made valid.
C39_PositionsInRange ==
  /\ 0 <= start
  /\ start <= pos
  /\ pos <= Len(input)
  /\ 0 <= line
  /\ line <= Len(tokens)
  /\ AtSlicedEscape
       => LET e == consumeEscape(next(Cur).l, "'").l
          IN  /\ start < e.pos - EscapeSliceLen(input[pos + 2])
              /\ e.pos <= Len(input)
  /\ LET w == lastOfLine(tokens, Len(tokens) - 1, line, FALSE)
     IN  /\ line - 1 <= w.pos
         /\ w.pos <= Len(tokens) - 1
         /\ w.insert => (0 <= w.pos /\ tokens[w.pos + 1].Kind \in TriggerKinds)

\* The whole input is read: a rune literal with a Unicode escape, whose
\* digits were sliced off before l.pos, then the newline at which the
\* semicolon was inserted and l.line was set.
C39_Witness ==
  /\ state = "nil"
  /\ start = pos
  /\ pos = Len(input)
  /\ pos > 0
  /\ Len(tokens) = 3
  /\ tokens[1].Kind = "Rune"
  /\ HasPrefix(tokens[1].Val, <<"'", "\\", "u">>)
  /\ tokens[2].Kind = "Semicolon"
  /\ line = 2

====
